---- MODULE Spec2Model ----
(***************************************************************************)
(* Rating subsystem of the radio application: the two rating tables, the   *)
(* repository functions over them (embedded SQLite and networked           *)
(* PostgreSQL branch), and the HTTP routes that validate and forward       *)
(* submissions.                                                            *)
(***************************************************************************)
EXTENDS Integers, FiniteSets, Sequences, Bags, TLC

(***************************************************************************)
(* Bounds                                                                  *)
(***************************************************************************)
MaxSongs == 2
MaxUsers == 3
MaxStmts == 3

\* Opaque identifiers: "The Beatles_Hey Jude", "user_1234567890_abc123", ...
SongIds == { "song" \o ToString(i) : i \in 1..MaxSongs }
UserIds == { "user" \o ToString(i) : i \in 1..MaxUsers }

\* Integers a caller of the repository may pass as rating, in and out of the
\* domain of each table.
SentimentArgs == -1..2
StarArgs == 0..6

VARIABLES
  DATABASE_TYPE,       \* "sqlite" or "postgres", fixed at module load
  song_ratings,        \* rows of table song_ratings
  song_star_ratings,   \* rows of table song_star_ratings
  now,                 \* CURRENT_TIMESTAMP of the storage engine
  nstmts,              \* number of submit calls made so far
  ret,                 \* the repository call made last and its outcome (in
                       \* a route: by the handler of the last request)
  latestRating,        \* history: last successful sentiment submission per key
  latestStar,          \* history: last successful star submission per key
  request,             \* the HTTP request handled last
  response,            \* the response sent to it
  pending,             \* bag of submit calls whose promise is not yet consumed
  schema,              \* names of the rating tables that exist in the database
  proc,                \* the server process: start-up, listening, exit
  driver,              \* the call of query / queryOne / execute made last
  page                 \* the browser page: localStorage, rating widgets, console

vars == <<DATABASE_TYPE, song_ratings, song_star_ratings, now, nstmts, ret,
          latestRating, latestStar, request, response, pending, schema, proc,
          driver, page>>

\* The rating tables.
RatingTables == {"song_ratings", "song_star_ratings"}

\* A process before it has loaded anything.  module: the database module
\* server.js requires; init: progress of initDatabase(); micro: the .catch
\* callback of a failed initDatabase() is queued; listening: app.listen() was
\* called; exited: the process has ended; uncaught: a promise was rejected
\* that nothing handles.
NotStarted ==
  [module |-> "none", init |-> "idle", micro |-> FALSE, listening |-> FALSE,
   exited |-> FALSE, uncaught |-> FALSE]

\* No call of query / queryOne / execute made yet.
NoCall ==
  [fn |-> "none", sql |-> <<>>, params |-> <<>>, sentSql |-> <<>>, sentParams |-> <<>>,
   engineError |-> "none", settled |-> "pending", error |-> "none",
   value |-> [null |-> FALSE, rows |-> <<>>, changes |-> 0]]

\* A page that has not been opened.
NoPage == [open |-> FALSE]

\* A process that has started up: schema created, server listening.
Started(module) ==
  [NotStarted EXCEPT !.module = module, !.init = "done", !.listening = TRUE]

(***************************************************************************)
(* Storage engine: rows, constraints, statements.  The surrogate key id    *)
(* is not modelled: no rating operation reads it (lastInsertRowid is       *)
(* dropped by the submit functions).                                       *)
(***************************************************************************)
Row(s, u, r, t) == [song_id |-> s, user_id |-> u, rating |-> r, created_at |-> t]

KeyRows(table, s, u) == { x \in table : x.song_id = s /\ x.user_id = u }

SongRows(table, s) == { x \in table : x.song_id = s }

\* rating INTEGER NOT NULL CHECK(rating IN (1, -1))
RatingCheck(r) == r \in {1, -1}

\* Variant: CHECK(rating <= 5), the lower limit missing.
StarCheck_noLower(r) == r <= 5

\* rating INTEGER NOT NULL CHECK(rating >= 1 AND rating <= 5)
StarCheck(r) == r >= 1 /\ r <= 5

\* Variant: the conflict target and the update cover the song, not the key.
Upsert_wholeSong(table, s, u, rIns, rUpd, t) ==
  IF KeyRows(table, s, u) # {}
  THEN { IF x.song_id = s
           THEN [x EXCEPT !.rating = rUpd, !.created_at = t]
           ELSE x : x \in table }
  ELSE table \cup { Row(s, u, rIns, t) }

\* Variant: the song's rows are deleted before the new row is inserted.
Upsert_deleteSong(table, s, u, rIns, rUpd, t) ==
  (table \ SongRows(table, s)) \cup { Row(s, u, rIns, t) }

\* Variant: DO UPDATE SET rating = rUpd, created_at left as it was.
Upsert_keepTime(table, s, u, rIns, rUpd, t) ==
  IF KeyRows(table, s, u) # {}
  THEN { IF x.song_id = s /\ x.user_id = u
           THEN [x EXCEPT !.rating = rUpd]
           ELSE x : x \in table }
  ELSE table \cup { Row(s, u, rIns, t) }

\* Variant: a plain INSERT, the table lacking UNIQUE(song_id, user_id).
Upsert_insertAlways(table, s, u, rIns, rUpd, t) ==
  table \cup { Row(s, u, rIns, t) }

\* Variant: ON CONFLICT(song_id, user_id) DO NOTHING.
Upsert_keepOld(table, s, u, rIns, rUpd, t) ==
  IF KeyRows(table, s, u) # {} THEN table
  ELSE table \cup { Row(s, u, rIns, t) }

\* INSERT INTO t (song_id, user_id, rating) VALUES (s, u, rIns)
\* ON CONFLICT(song_id, user_id) DO UPDATE SET rating = rUpd,
\*                                             created_at = CURRENT_TIMESTAMP
\* One atomic statement; created_at of a new row is DEFAULT CURRENT_TIMESTAMP.
Upsert(table, s, u, rIns, rUpd, t) ==
  IF KeyRows(table, s, u) # {}
  THEN { IF x.song_id = s /\ x.user_id = u
           THEN [x EXCEPT !.rating = rUpd, !.created_at = t]
           ELSE x : x \in table }
  ELSE table \cup { Row(s, u, rIns, t) }

\* The CHECK constraint of the named table.
Check(name, r) ==
  IF name = "song_ratings" THEN RatingCheck(r) ELSE StarCheck(r)

\* Variant: INSERT OR REPLACE, the row of the key is deleted before the new
\* values are checked.
RunUpsert_replace(table, name, s, u, rIns, rUpd, t) ==
  IF Check(name, rIns) /\ Check(name, rUpd)
  THEN [threw |-> FALSE, changes |-> 1, rows |-> Upsert(table, s, u, rIns, rUpd, t)]
  ELSE [threw |-> TRUE,  changes |-> 0, rows |-> table \ KeyRows(table, s, u)]

\* Variant: the update of an existing row is not counted as a change.
RunUpsert_updateUncounted(table, name, s, u, rIns, rUpd, t) ==
  IF Check(name, rIns) /\ Check(name, rUpd)
  THEN [threw |-> FALSE, changes |-> IF KeyRows(table, s, u) # {} THEN 0 ELSE 1,
        rows |-> Upsert(table, s, u, rIns, rUpd, t)]
  ELSE [threw |-> TRUE,  changes |-> 0, rows |-> table]

\* Outcome of running the upsert under the table's CHECK constraint: the
\* statement either fails as a whole (the engine raises, nothing is written)
\* or affects exactly one row.
RunUpsert(table, name, s, u, rIns, rUpd, t) ==
  IF Check(name, rIns) /\ Check(name, rUpd)
  THEN [threw |-> FALSE, changes |-> 1, rows |-> Upsert(table, s, u, rIns, rUpd, t)]
  ELSE [threw |-> TRUE,  changes |-> 0, rows |-> table]

(***************************************************************************)
(* JavaScript values: of a request body, and as a driver hands a column to *)
(* the program.  A number is kept in tenths (3.5 is 35), a boolean as 1    *)
(* or 0.                                                                   *)
(***************************************************************************)
JsUndefined == [t |-> "undefined", s |-> "", n |-> 0]
JsString(x) == [t |-> "string", s |-> x, n |-> 0]
JsNumber(tenths) == [t |-> "number", s |-> "", n |-> tenths]
JsInt(k) == JsNumber(10 * k)
JsTrue == [t |-> "boolean", s |-> "", n |-> 1]
JsNull == [t |-> "null", s |-> "", n |-> 0]

(***************************************************************************)
(* Storage driver                                                          *)
(***************************************************************************)
\* execute(), embedded branch: stmt.run(...params) inside a promise; the
\* promise resolves with {changes, lastInsertRowid} or rejects with the
\* engine's error.  params = <<song_id, user_id, rating, rating>>.
execute(table, name, params, t) ==
  LET r == RunUpsert(table, name, params[1], params[2], params[3], params[4], t)
  IN  [rejected |-> r.threw, changes |-> r.changes, rows |-> r.rows]

\* dbInstance.query(), networked branch: $3 is used for both the inserted
\* and the updated rating.  params = <<song_id, user_id, rating>>.
pgQuery(table, name, params, t) ==
  LET r == RunUpsert(table, name, params[1], params[2], params[3], params[3], t)
  IN  [rejected |-> r.threw, rowCount |-> r.changes, rows |-> r.rows]

\* SUM(CASE WHEN rating = v THEN 1 ELSE 0 END) over the selected rows: NULL
\* when no row is selected.
SqlSumCase(rows, v) ==
  [isNull |-> rows = {}, n |-> Cardinality({ x \in rows : x.rating = v })]

\* Sum of the rating column over a set of rows.
RECURSIVE SumRating(_)
SumRating(rows) ==
  IF rows = {} THEN 0
  ELSE LET x == CHOOSE y \in rows : TRUE
       IN  x.rating + SumRating(rows \ {x})

\* AVG(rating): NULL when no row is selected, else the quotient sum / count,
\* kept as the exact fraction.
SqlAvg(rows) ==
  [isNull |-> rows = {}, num |-> SumRating(rows), den |-> Cardinality(rows)]

\* COUNT(*)
SqlCount(rows) == Cardinality(rows)

\* A column of a result row as the driver hands it to the program: NULL is
\* null; an integer is a number with better-sqlite3, and a bigint (SUM,
\* COUNT) is its decimal text with node-postgres.
DriverInt(db, x) ==
  IF x.isNull THEN JsNull
  ELSE IF db = "postgres" THEN JsString(ToString(x.n))
  ELSE JsInt(x.n)

\* Counts whose decimal text parseInt reads back.
CountRange == 0..99

\* Variant: only a number is taken, a numeral string reads as NaN.
ParseInt_numbersOnly(v) ==
  IF v.t = "number" THEN [nan |-> FALSE, n |-> v.n \div 10]
  ELSE [nan |-> TRUE, n |-> 0]

\* parseInt(v) of a count: the integer a number or a numeral string stands
\* for, NaN for null.
ParseInt(v) ==
  IF v.t = "number" THEN [nan |-> FALSE, n |-> v.n \div 10]
  ELSE IF v.t = "string" /\ \E k \in CountRange : ToString(k) = v.s
       THEN [nan |-> FALSE, n |-> CHOOSE k \in CountRange : ToString(k) = v.s]
       ELSE [nan |-> TRUE, n |-> 0]

\* parseInt(v) || 0: NaN and 0 are falsy.
ParseIntOr0(v) ==
  LET k == ParseInt(v) IN IF k.nan \/ k.n = 0 THEN 0 ELSE k.n

\* floor(log2(num / den)) for num >= den.
RECURSIVE Log2Floor(_, _)
Log2Floor(num, den) ==
  IF num < 2 * den THEN 0 ELSE 1 + Log2Floor(num, 2 * den)

\* 2^k mod m
RECURSIVE Pow2Mod(_, _)
Pow2Mod(k, m) ==
  IF k = 0 THEN 1 % m ELSE (2 * Pow2Mod(k - 1, m)) % m

\* The double nearest to num / den (num >= den) is smaller than num / den:
\* with 53 bits the quotient is cut at 2^-k, k = 52 - floor(log2(num/den)),
\* and rounds down when the part cut off, (num * 2^k mod den) / den, is
\* positive and below one half.
DoubleBelow(num, den) ==
  LET k   == 52 - Log2Floor(num, den)
      rem == ((num % den) * Pow2Mod(k, den)) % den
  IN  rem # 0 /\ 2 * rem < den

\* Variant: the quotient cut after one decimal instead of rounded.
ToFixed1_truncate(num, den) == (10 * num) \div den

\* parseFloat(q.toFixed(1)) for the double q nearest to num / den, in tenths.
\* toFixed(1) picks the n with n / 10 closest to q and the larger n when two
\* are equally close.  Unless num / den lies halfway between two tenths, q
\* is on the same side of the halfway point as num / den.  If it lies
\* halfway, q decides: a q below it gives the smaller n.
ToFixed1(num, den) ==
  LET lo == (10 * num) \div den
      r  == (10 * num) % den
  IN  IF 2 * r < den THEN lo
      ELSE IF 2 * r > den THEN lo + 1
      ELSE IF DoubleBelow(num, den) THEN lo ELSE lo + 1

\* Decimal digits of rem / den after the point, k of them, and what is left.
RECURSIVE FracDigits(_, _, _)
FracDigits(rem, den, k) ==
  IF k = 0 THEN <<>>
  ELSE <<(10 * rem) \div den>> \o FracDigits((10 * rem) % den, den, k - 1)

RECURSIVE RemAfter(_, _, _)
RemAfter(rem, den, k) ==
  IF k = 0 THEN rem ELSE RemAfter((10 * rem) % den, den, k - 1)

\* A digit sequence plus one in its last place.
RECURSIVE Incr(_)
Incr(digits) ==
  IF digits = <<>> THEN [carry |-> 1, digits |-> <<>>]
  ELSE LET last  == digits[Len(digits)]
           front == SubSeq(digits, 1, Len(digits) - 1)
       IN  IF last < 9 THEN [carry |-> 0, digits |-> Append(front, last + 1)]
           ELSE LET r == Incr(front)
                IN  [carry |-> r.carry, digits |-> Append(r.digits, 0)]

\* Decimals PostgreSQL gives the numeric AVG of an integer column whose
\* mean is between 1 and 10.
NumericScale == 16

\* AVG(rating) of PostgreSQL, a numeric: the quotient rounded to
\* NumericScale decimals (half away from zero).
PgNumeric(num, den) ==
  LET digits == FracDigits(num % den, den, NumericScale)
      rem    == RemAfter(num % den, den, NumericScale)
      r      == IF 2 * rem >= den THEN Incr(digits) ELSE [carry |-> 0, digits |-> digits]
  IN  [int |-> (num \div den) + r.carry, frac |-> r.digits]

\* AVG(rating) as the driver hands it to the program: null for NULL, the
\* double num / den with better-sqlite3, the text of the numeric with
\* node-postgres.
DriverAvg(db, avg) ==
  IF avg.isNull THEN [t |-> "null", num |-> 0, den |-> 1, int |-> 0, frac |-> <<>>]
  ELSE IF db = "postgres"
       THEN LET text == PgNumeric(avg.num, avg.den)
            IN  [t |-> "string", num |-> 0, den |-> 1, int |-> text.int, frac |-> text.frac]
       ELSE [t |-> "number", num |-> avg.num, den |-> avg.den, int |-> 0, frac |-> <<>>]

\* parseFloat(parseFloat(text).toFixed(1)) for the text int.frac of a
\* numeric, in tenths: the decimals after the first decide.  Exactly 50...0
\* is a value halfway between two tenths and the double nearest to it
\* decides; decimals within 10^-13 of that and not equal to it are answered
\* -1: their double is not determined here.
ToFixed1Text(int, frac) ==
  LET base == 10 * int + frac[1]
      tail == SubSeq(frac, 2, Len(frac))
      half == [i \in 1..Len(tail) |-> IF i = 1 THEN 5 ELSE 0]
      low  == [i \in 1..12 |-> IF i = 1 THEN 4 ELSE 9]
  IN  IF tail = half
      THEN IF DoubleBelow(10 * base + 5, 100) THEN base ELSE base + 1
      ELSE IF SubSeq(tail, 1, 12) = SubSeq(half, 1, 12) \/ SubSeq(tail, 1, 12) = low
           THEN -1
           ELSE IF tail[1] >= 5 THEN base + 1 ELSE base

\* v ? parseFloat(parseFloat(v).toFixed(1)) : 0.  null and the number 0 are
\* falsy, a non-empty text is truthy.
AverageOf(v) ==
  IF v.t = "null" THEN 0
  ELSE IF v.t = "number" THEN IF v.num = 0 THEN 0 ELSE ToFixed1(v.num, v.den)
  ELSE ToFixed1Text(v.int, v.frac)

(***************************************************************************)
(* Rating repository                                                       *)
(***************************************************************************)
NoRet == [op |-> "none", threw |-> FALSE, ok |-> FALSE, a |-> 0, b |-> 0, none |-> FALSE]

\* Running the submit statement of branch db against a table: the new rows
\* and what the awaited call gives back (true/false, or a throw).
SubmitAs(db, table, name, songId, userId, rating, t) ==
  IF db = "postgres"
  THEN LET result == pgQuery(table, name, <<songId, userId, rating>>, t)
       IN  [rows |-> result.rows, threw |-> result.rejected, ok |-> result.rowCount > 0]
  ELSE LET result == execute(table, name, <<songId, userId, rating, rating>>, t)
       IN  [rows |-> result.rows, threw |-> result.rejected, ok |-> result.changes > 0]

SubmitOn(table, name, songId, userId, rating, t) ==
  SubmitAs(DATABASE_TYPE, table, name, songId, userId, rating, t)

\* getRatings on branch db.
getRatingsOn(db, songId) ==
  LET rows == SongRows(song_ratings, songId)
  IN  [thumbs_up   |-> ParseIntOr0(DriverInt(db, SqlSumCase(rows, 1))),
       thumbs_down |-> ParseIntOr0(DriverInt(db, SqlSumCase(rows, -1)))]

\* getStarRatings on branch db; average_rating in tenths.
getStarRatingsOn(db, songId) ==
  LET rows == SongRows(song_star_ratings, songId)
      \* result.average_rating is read from the row once it has arrived.
      average == CHOOSE a \in { AverageOf(v) : v \in {DriverAvg(db, SqlAvg(rows))} } : TRUE
  IN  [average_rating |-> average,
       total_ratings  |-> ParseIntOr0(DriverInt(db, [isNull |-> FALSE,
                                                     n |-> SqlCount(rows)]))]

\* Variant: the aggregate query without its WHERE song_id = ? clause.
getRatings_noWhere(songId) ==
  [thumbs_up   |-> ParseIntOr0(DriverInt(DATABASE_TYPE, SqlSumCase(song_ratings, 1))),
   thumbs_down |-> ParseIntOr0(DriverInt(DATABASE_TYPE, SqlSumCase(song_ratings, -1)))]

getRatings(songId) == getRatingsOn(DATABASE_TYPE, songId)

\* Variant: the per-user lookup without its song_id = ? condition.
getUserRating_anySong(songId, userId) ==
  LET result == { x \in song_ratings : x.user_id = userId }
  IN  IF result # {} THEN [none |-> FALSE, rating |-> (CHOOSE x \in result : TRUE).rating]
      ELSE [none |-> TRUE, rating |-> 0]
getUserRating(songId, userId) ==
  LET result == KeyRows(song_ratings, songId, userId)
  IN  IF result # {} THEN [none |-> FALSE, rating |-> (CHOOSE x \in result : TRUE).rating]
      ELSE [none |-> TRUE, rating |-> 0]

getStarRatings(songId) == getStarRatingsOn(DATABASE_TYPE, songId)

\* Variant: the star lookup reading the table of the sentiment ratings.
getUserStarRating_sentimentTable(songId, userId) ==
  LET result == KeyRows(song_ratings, songId, userId)
  IN  IF result # {} THEN [none |-> FALSE, rating |-> (CHOOSE x \in result : TRUE).rating]
      ELSE [none |-> TRUE, rating |-> 0]
getUserStarRating(songId, userId) ==
  LET result == KeyRows(song_star_ratings, songId, userId)
  IN  IF result # {} THEN [none |-> FALSE, rating |-> (CHOOSE x \in result : TRUE).rating]
      ELSE [none |-> TRUE, rating |-> 0]

(***************************************************************************)
(* The request and response records                                        *)
(***************************************************************************)
NoRequest == [route |-> "none", songId |-> JsUndefined, userId |-> JsUndefined,
              rating |-> JsUndefined]

NoData == [a |-> 0, b |-> 0, none |-> TRUE, userRating |-> 0]

\* promise: the success member is a promise object, which JSON renders as {}.
NoResponse ==
  [status |-> 0, keys |-> {}, success |-> FALSE, promise |-> FALSE, text |-> "",
   data |-> NoData]

(***************************************************************************)
(* History of successful submissions: one entry per (song, user) with the  *)
(* value submitted last and the number of successful submissions so far.   *)
(***************************************************************************)
HistOf(hist, s, u) == { h \in hist : h.song_id = s /\ h.user_id = u }

Record(hist, s, u, r) ==
  LET old == HistOf(hist, s, u)
      k   == IF old = {} THEN 0 ELSE (CHOOSE h \in old : TRUE).count
  IN  (hist \ old) \cup { [song_id |-> s, user_id |-> u, rating |-> r, count |-> k + 1] }

(***************************************************************************)
(* Sequential use of the repository: every call is awaited before the next *)
(* one is made.                                                            *)
(***************************************************************************)
Init ==
  /\ DATABASE_TYPE \in {"sqlite", "postgres"}
  /\ song_ratings = {}
  /\ song_star_ratings = {}
  /\ now = 0
  /\ nstmts = 0
  /\ ret = NoRet
  /\ latestRating = {}
  /\ latestStar = {}
  /\ request = NoRequest
  /\ response = NoResponse
  /\ pending = EmptyBag
  /\ driver = NoCall
  /\ page = NoPage
  /\ schema = RatingTables
  /\ proc = Started("dual")

submitRating(songId, userId, rating) ==
  /\ nstmts < MaxStmts
  /\ LET r == SubmitOn(song_ratings, "song_ratings", songId, userId, rating, now)
     IN  /\ song_ratings' = r.rows
         /\ ret' = [NoRet EXCEPT !.op = "submitRating", !.threw = r.threw,
                                 !.ok = (~r.threw /\ r.ok)]
         /\ latestRating' = IF r.threw THEN latestRating
                            ELSE Record(latestRating, songId, userId, rating)
  /\ nstmts' = nstmts + 1
  /\ UNCHANGED <<DATABASE_TYPE, driver, page, schema, proc, song_star_ratings, now, latestStar, request, response, pending>>

submitStarRating(songId, userId, rating) ==
  /\ nstmts < MaxStmts
  /\ LET r == SubmitOn(song_star_ratings, "song_star_ratings", songId, userId, rating, now)
     IN  /\ song_star_ratings' = r.rows
         /\ ret' = [NoRet EXCEPT !.op = "submitStarRating", !.threw = r.threw,
                                 !.ok = (~r.threw /\ r.ok)]
         /\ latestStar' = IF r.threw THEN latestStar
                          ELSE Record(latestStar, songId, userId, rating)
  /\ nstmts' = nstmts + 1
  /\ UNCHANGED <<DATABASE_TYPE, driver, page, schema, proc, song_ratings, now, latestRating, request, response, pending>>

SubmitSentiment ==
  \E s \in SongIds, u \in UserIds, r \in SentimentArgs : submitRating(s, u, r)

SubmitStar ==
  \E s \in SongIds, u \in UserIds, r \in StarArgs : submitStarRating(s, u, r)

\* Both rating kinds.
Next == SubmitSentiment \/ SubmitStar

Spec == Init /\ [][Next]_vars

\* Sentiment ratings only.
NextSentiment == SubmitSentiment

SpecSentiment == Init /\ [][NextSentiment]_vars

\* Star ratings only.
NextStar == SubmitStar

SpecStar == Init /\ [][NextStar]_vars

(***************************************************************************)
(* Embedded driver binding (better-sqlite3) and column affinity            *)
(***************************************************************************)
\* Falsy values: undefined, "", 0, false.
Truthy(v) ==
  \/ v.t = "string" /\ v.s # ""
  \/ v.t = "number" /\ v.n # 0
  \/ v.t = "boolean" /\ v.n = 1

\* x === k for an integer literal k.
StrictEquals(v, k) == v.t = "number" /\ v.n = 10 * k

\* Number.isInteger(x)
NumberIsInteger(v) == v.t = "number" /\ v.n % 10 = 0

\* stmt.run binds strings and numbers; it throws a TypeError on a boolean or
\* undefined parameter.
Bindable(v) == v.t \in {"string", "number"}

\* Text of a number as SQLite renders it.
NumberText(tenths) ==
  IF tenths % 10 = 0 THEN ToString(tenths \div 10)
  ELSE IF tenths >= 0
       THEN ToString(tenths \div 10) \o "." \o ToString(tenths % 10)
       ELSE "-" \o ToString((-tenths) \div 10) \o "." \o ToString((-tenths) % 10)

\* Integers whose decimal text the model can parse back.
ParseRange == -9..9

\* A value stored in a TEXT column: a number becomes its text.
ColumnText(v) == IF v.t = "number" THEN NumberText(v.n) ELSE v.s

\* A value stored in an INTEGER column: an integral number or a text that
\* reads as an integer becomes that integer.  Any other value keeps its own
\* type; for every value the routes let through it then fails the CHECK of
\* the rating column.
ColumnInteger(v) ==
  IF v.t = "number" /\ v.n % 10 = 0 THEN [int |-> TRUE, val |-> v.n \div 10]
  ELSE IF v.t = "string" /\ \E k \in ParseRange : ToString(k) = v.s
       THEN [int |-> TRUE, val |-> CHOOSE k \in ParseRange : ToString(k) = v.s]
       ELSE [int |-> FALSE, val |-> 0]

\* stmt.run(songId, userId, rating, rating) of the upsert on the named table,
\* and result.changes > 0.
RunSync(table, name, songId, userId, rating, t) ==
  IF ~Bindable(songId) \/ ~Bindable(userId) \/ ~Bindable(rating)
       \/ ~ColumnInteger(rating).int
  THEN [threw |-> TRUE, ok |-> FALSE, rows |-> table]
  ELSE LET result == RunUpsert(table, name, ColumnText(songId), ColumnText(userId),
                               ColumnInteger(rating).val, ColumnInteger(rating).val, t)
       IN  [threw |-> result.threw, ok |-> result.changes > 0, rows |-> result.rows]

(***************************************************************************)
(* database.js: the synchronous sentiment functions server.js imports      *)
(***************************************************************************)
submitRatingSync(songId, userId, rating) ==
  RunSync(song_ratings, "song_ratings", songId, userId, rating, now)

\* result.thumbs_up || 0
OrZero(x) == IF x.isNull \/ x.n = 0 THEN 0 ELSE x.n

getRatingsSync(songId) ==
  LET rows == SongRows(song_ratings, songId)
  IN  [thumbs_up   |-> OrZero(SqlSumCase(rows, 1)),
       thumbs_down |-> OrZero(SqlSumCase(rows, -1))]

\* Variant: the per-user lookup without its song_id = ? condition.
getUserRatingSync_anySong(songId, userId) ==
  LET result == { x \in song_ratings : x.user_id = userId }
  IN  IF result # {} THEN [none |-> FALSE, rating |-> (CHOOSE x \in result : TRUE).rating]
      ELSE [none |-> TRUE, rating |-> 0]
getUserRatingSync(songId, userId) ==
  LET result == KeyRows(song_ratings, songId, userId)
  IN  IF result # {} THEN [none |-> FALSE, rating |-> (CHOOSE x \in result : TRUE).rating]
      ELSE [none |-> TRUE, rating |-> 0]

(***************************************************************************)
(* server.js: the sentiment routes                                         *)
(***************************************************************************)
Resp400(text) ==
  [NoResponse EXCEPT !.status = 400, !.keys = {"success", "error"}, !.text = text]

\* catch (error): res.status(500).json({success: false, error: error.message})
Resp500 ==
  [NoResponse EXCEPT !.status = 500, !.keys = {"success", "error"},
                     !.text = "error.message"]

\* res.json({success, message}): status 200, success is what submit returned.
RespSubmit(success, okText, failText) ==
  [NoResponse EXCEPT !.status = 200, !.keys = {"success", "message"},
                     !.success = success,
                     !.text = IF success THEN okText ELSE failText]

RespData(a, b, user) ==
  [NoResponse EXCEPT !.status = 200, !.keys = {"success", "data"}, !.success = TRUE,
                     !.data = [a |-> a, b |-> b, none |-> user.none,
                               userRating |-> user.rating]]

\* Variant: the rating compared with == instead of ===, so "1" passes.
RatingBodyRejected_loose(songId, userId, rating) ==
  \/ ~Truthy(songId)
  \/ ~Truthy(userId)
  \/ ~(ColumnInteger(rating).int /\ ColumnInteger(rating).val \in {1, -1})

\* !songId || !userId || (rating !== 1 && rating !== -1)
RatingBodyRejected(songId, userId, rating) ==
  \/ ~Truthy(songId)
  \/ ~Truthy(userId)
  \/ (~StrictEquals(rating, 1) /\ ~StrictEquals(rating, -1))

\* app.post('/api/ratings')
PostRatings(songId, userId, rating) ==
  /\ request' = [route |-> "POST /api/ratings", songId |-> songId,
                 userId |-> userId, rating |-> rating]
  /\ IF RatingBodyRejected(songId, userId, rating)
     THEN /\ response' = Resp400("Song ID, user ID, and rating (1 or -1) are required")
          /\ ret' = NoRet
          /\ UNCHANGED <<song_ratings, nstmts, latestRating>>
     ELSE /\ nstmts < MaxStmts
          /\ LET r == submitRatingSync(songId, userId, rating)
             IN  /\ song_ratings' = r.rows
                 /\ ret' = [NoRet EXCEPT !.op = "submitRating", !.threw = r.threw,
                                         !.ok = (~r.threw /\ r.ok)]
                 /\ response' = IF r.threw THEN Resp500
                                ELSE RespSubmit(r.ok, "Rating submitted successfully",
                                                "Rating submission failed")
                 /\ latestRating' =
                      IF r.threw THEN latestRating
                      ELSE Record(latestRating, ColumnText(songId), ColumnText(userId),
                                  ColumnInteger(rating).val)
          /\ nstmts' = nstmts + 1
  /\ UNCHANGED <<DATABASE_TYPE, driver, page, schema, proc, song_star_ratings, now, latestStar, pending>>

\* Variant: the per-user lookup issued whether or not userId is given.
GetRatings_alwaysLookup(songId, userId) ==
  /\ request' = [route |-> "GET /api/ratings/:songId", songId |-> JsString(songId),
                 userId |-> userId, rating |-> JsUndefined]
  /\ LET ratings    == getRatingsSync(songId)
         userRating == getUserRatingSync(songId, userId.s)
     IN  /\ response' = RespData(ratings.thumbs_up, ratings.thumbs_down, userRating)
         /\ ret' = [NoRet EXCEPT !.op = "getUserRating", !.none = userRating.none,
                                 !.a = userRating.rating]
  /\ UNCHANGED <<DATABASE_TYPE, driver, page, schema, proc, song_ratings, song_star_ratings, now, nstmts,
                 latestRating, latestStar, pending>>

\* app.get('/api/ratings/:songId'); songId is the path parameter, userId the
\* optional query parameter.
GetRatings(songId, userId) ==
  /\ request' = [route |-> "GET /api/ratings/:songId", songId |-> JsString(songId),
                 userId |-> userId, rating |-> JsUndefined]
  /\ LET ratings    == getRatingsSync(songId)
         userRating == IF Truthy(userId) THEN getUserRatingSync(songId, userId.s)
                       ELSE [none |-> TRUE, rating |-> 0]
     IN  /\ response' = RespData(ratings.thumbs_up, ratings.thumbs_down, userRating)
         /\ ret' = IF Truthy(userId)
                   THEN [NoRet EXCEPT !.op = "getUserRating", !.none = userRating.none,
                                      !.a = userRating.rating]
                   ELSE [NoRet EXCEPT !.op = "getRatings", !.a = ratings.thumbs_up,
                                      !.b = ratings.thumbs_down]
  /\ UNCHANGED <<DATABASE_TYPE, driver, page, schema, proc, song_ratings, song_star_ratings, now, nstmts,
                 latestRating, latestStar, pending>>

\* Request bodies and paths sent to the sentiment routes.
HttpSongArgs == { JsUndefined, JsString(""), JsString("song1"), JsInt(7), JsTrue }
HttpUserArgs == { JsUndefined, JsString(""), JsString("user1"), JsInt(7) }
HttpRatingArgs == { JsUndefined, JsInt(0), JsInt(1), JsInt(-1), JsInt(2), JsString("1") }
HttpSongPaths == { "song1", "7" }
HttpUserQueries == { JsUndefined, JsString(""), JsString("user1"), JsString("7") }

\* server.js runs database.js, the embedded engine.
InitHttp ==
  /\ DATABASE_TYPE = "sqlite"
  /\ song_ratings = {}
  /\ song_star_ratings = {}
  /\ now = 0
  /\ nstmts = 0
  /\ ret = NoRet
  /\ latestRating = {}
  /\ latestStar = {}
  /\ request = NoRequest
  /\ response = NoResponse
  /\ pending = EmptyBag
  /\ driver = NoCall
  /\ page = NoPage
  /\ schema = RatingTables
  /\ proc = Started("database.js")

NextHttp ==
  \/ \E s \in HttpSongArgs, u \in HttpUserArgs, r \in HttpRatingArgs : PostRatings(s, u, r)
  \/ \E s \in HttpSongPaths, u \in HttpUserQueries : GetRatings(s, u)

SpecHttp == InitHttp /\ [][NextHttp]_vars

(***************************************************************************)
(* api-star-ratings.test.js: the star routes and the synchronous star      *)
(* functions they run on the embedded engine                               *)
(***************************************************************************)
submitStarRatingSync(songId, userId, rating) ==
  RunSync(song_star_ratings, "song_star_ratings", songId, userId, rating, now)

getStarRatingsSync(songId) ==
  LET rows == SongRows(song_star_ratings, songId)
      avg  == SqlAvg(rows)
  IN  [average_rating |-> IF ~avg.isNull /\ avg.num # 0
                            THEN ToFixed1(avg.num, avg.den) ELSE 0,
       total_ratings  |-> OrZero([isNull |-> FALSE, n |-> SqlCount(rows)])]

getUserStarRatingSync(songId, userId) ==
  LET result == KeyRows(song_star_ratings, songId, userId)
  IN  IF result # {} THEN [none |-> FALSE, rating |-> (CHOOSE x \in result : TRUE).rating]
      ELSE [none |-> TRUE, rating |-> 0]

\* Variant: the upper limit rating > 5 left out.
StarBodyRejected_noUpper(songId, userId, rating) ==
  \/ ~Truthy(songId)
  \/ ~Truthy(userId)
  \/ rating.t # "number"
  \/ ~NumberIsInteger(rating)
  \/ rating.n < 10

\* !songId || !userId || typeof rating !== 'number' ||
\* !Number.isInteger(rating) || rating < 1 || rating > 5
StarBodyRejected(songId, userId, rating) ==
  \/ ~Truthy(songId)
  \/ ~Truthy(userId)
  \/ rating.t # "number"
  \/ ~NumberIsInteger(rating)
  \/ rating.n < 10
  \/ rating.n > 50

\* app.post('/api/star-ratings')
PostStarRatings(songId, userId, rating) ==
  /\ request' = [route |-> "POST /api/star-ratings", songId |-> songId,
                 userId |-> userId, rating |-> rating]
  /\ IF StarBodyRejected(songId, userId, rating)
     THEN /\ response' = Resp400("Song ID, user ID, and rating (1-5) are required")
          /\ ret' = NoRet
          /\ UNCHANGED <<song_star_ratings, nstmts, latestStar>>
     ELSE /\ nstmts < MaxStmts
          /\ LET r == submitStarRatingSync(songId, userId, rating)
             IN  /\ song_star_ratings' = r.rows
                 /\ ret' = [NoRet EXCEPT !.op = "submitStarRating", !.threw = r.threw,
                                         !.ok = (~r.threw /\ r.ok)]
                 /\ response' = IF r.threw THEN Resp500
                                ELSE RespSubmit(r.ok, "Star rating submitted successfully",
                                                "Star rating submission failed")
                 /\ latestStar' =
                      IF r.threw THEN latestStar
                      ELSE Record(latestStar, ColumnText(songId), ColumnText(userId),
                                  ColumnInteger(rating).val)
          /\ nstmts' = nstmts + 1
  /\ UNCHANGED <<DATABASE_TYPE, driver, page, schema, proc, song_ratings, now, latestRating, pending>>

\* app.get('/api/star-ratings/:songId')
GetStarRatings(songId, userId) ==
  /\ request' = [route |-> "GET /api/star-ratings/:songId", songId |-> JsString(songId),
                 userId |-> userId, rating |-> JsUndefined]
  /\ LET ratings    == getStarRatingsSync(songId)
         userRating == IF Truthy(userId) THEN getUserStarRatingSync(songId, userId.s)
                       ELSE [none |-> TRUE, rating |-> 0]
     IN  /\ response' = RespData(ratings.average_rating, ratings.total_ratings, userRating)
         /\ ret' = IF Truthy(userId)
                   THEN [NoRet EXCEPT !.op = "getUserStarRating", !.none = userRating.none,
                                      !.a = userRating.rating]
                   ELSE [NoRet EXCEPT !.op = "getStarRatings", !.a = ratings.average_rating,
                                      !.b = ratings.total_ratings]
  /\ UNCHANGED <<DATABASE_TYPE, driver, page, schema, proc, song_ratings, song_star_ratings, now, nstmts,
                 latestRating, latestStar, pending>>

\* Request bodies and paths sent to the star routes.
HttpStarSongArgs == { JsUndefined, JsString(""), JsString("song1"), JsInt(7) }
HttpStarUserArgs == { JsUndefined, JsString(""), JsString("user1") }
HttpStarRatingArgs ==
  { JsUndefined, JsNumber(35), JsString("5") } \cup { JsInt(k) : k \in -1..6 }
HttpStarUserQueries == { JsUndefined, JsString(""), JsString("user1") }

NextHttpStar ==
  \/ \E s \in HttpStarSongArgs, u \in HttpStarUserArgs, r \in HttpStarRatingArgs :
       PostStarRatings(s, u, r)
  \/ \E s \in HttpSongPaths, u \in HttpStarUserQueries : GetStarRatings(s, u)

SpecHttpStar == InitHttp /\ [][NextHttpStar]_vars

(***************************************************************************)
(* Concurrent use of the repository: callers issue submit calls without    *)
(* waiting for one another.  On the networked branch a call hands its one  *)
(* statement to the pool and the server runs the statements one at a time  *)
(* in any order; on the embedded branch execute() runs the statement       *)
(* inside the call.  Either way the caller resumes later.                  *)
(***************************************************************************)
MaxInFlight == 2

\* Keys and values of the concurrent calls.
ConcSongs == { "song1" }
ConcUsers == { "user1", "user2" }

TableOf(name) == IF name = "song_ratings" THEN song_ratings ELSE song_star_ratings

\* A call in flight.  seen (whether the key had a row when the call was made)
\* and raced are history: the code reads neither.
Call(name, songId, userId, rating) ==
  [table |-> name, songId |-> songId, userId |-> userId, rating |-> rating,
   phase |-> "sent", threw |-> FALSE, ok |-> FALSE, raced |-> FALSE,
   seen |-> KeyRows(TableOf(name), songId, userId) # {}]

\* History: when the statement of e runs, another call for the same table and
\* key is in flight whose statement has not run yet (on the embedded branch:
\* whose caller has not resumed yet).
Races(e) ==
  \/ CopiesIn(e, pending) >= 2
  \/ \E o \in BagToSet(pending) :
       /\ o # e /\ o.table = e.table /\ o.songId = e.songId /\ o.userId = e.userId
       /\ (o.phase = "sent" \/ DATABASE_TYPE = "sqlite")

\* Variant: read-then-write.  The call looks the key up when it is made and
\* later runs an UPDATE if it saw a row, a plain INSERT if it saw none.
RunCall_readThenWrite(e, rest) ==
  LET table == TableOf(e.table)
      threw == ~Check(e.table, e.rating)
      rows  == IF threw THEN table
               ELSE IF e.seen
                    THEN { IF x.song_id = e.songId /\ x.user_id = e.userId
                             THEN [x EXCEPT !.rating = e.rating, !.created_at = now]
                             ELSE x : x \in table }
                    ELSE table \cup { Row(e.songId, e.userId, e.rating, now) }
      d == [e EXCEPT !.phase = "settled", !.threw = threw, !.ok = ~threw,
                     !.raced = Races(e)]
  IN  /\ pending' = rest (+) SetToBag({d})
      /\ IF e.table = "song_ratings"
         THEN /\ song_ratings' = rows
              /\ latestRating' = IF threw THEN latestRating
                                 ELSE Record(latestRating, e.songId, e.userId, e.rating)
              /\ UNCHANGED <<song_star_ratings, latestStar>>
         ELSE /\ song_star_ratings' = rows
              /\ latestStar' = IF threw THEN latestStar
                               ELSE Record(latestStar, e.songId, e.userId, e.rating)
              /\ UNCHANGED <<song_ratings, latestRating>>

\* The engine runs the statement of call e: the tables, the history and the
\* settled call.
RunCall(e, rest) ==
  LET r == SubmitOn(TableOf(e.table), e.table, e.songId, e.userId, e.rating, now)
      d == [e EXCEPT !.phase = "settled", !.threw = r.threw,
                     !.ok = (~r.threw /\ r.ok), !.raced = Races(e)]
  IN  /\ pending' = rest (+) SetToBag({d})
      /\ IF e.table = "song_ratings"
         THEN /\ song_ratings' = r.rows
              /\ latestRating' = IF r.threw THEN latestRating
                                 ELSE Record(latestRating, e.songId, e.userId, e.rating)
              /\ UNCHANGED <<song_star_ratings, latestStar>>
         ELSE /\ song_star_ratings' = r.rows
              /\ latestStar' = IF r.threw THEN latestStar
                               ELSE Record(latestStar, e.songId, e.userId, e.rating)
              /\ UNCHANGED <<song_ratings, latestRating>>

\* submitRating / submitStarRating is called: up to the first await.
CallSubmit(name, songId, userId, rating) ==
  /\ nstmts < MaxStmts
  /\ BagCardinality(pending) < MaxInFlight
  /\ nstmts' = nstmts + 1
  /\ LET e == Call(name, songId, userId, rating)
     IN  IF DATABASE_TYPE = "postgres"
         THEN /\ pending' = pending (+) SetToBag({e})
              /\ UNCHANGED <<song_ratings, song_star_ratings, latestRating, latestStar>>
         ELSE RunCall(e, pending)
  /\ UNCHANGED <<DATABASE_TYPE, driver, page, schema, proc, now, ret, request, response>>

\* The PostgreSQL server runs one statement it has received.
PgRun(e) ==
  /\ DATABASE_TYPE = "postgres"
  /\ BagIn(e, pending) /\ e.phase = "sent"
  /\ RunCall(e, pending (-) SetToBag({e}))
  /\ UNCHANGED <<DATABASE_TYPE, driver, page, schema, proc, now, nstmts, ret, request, response>>

\* The awaited promise has settled: the call returns result.rowCount > 0 /
\* result.changes > 0 or throws.
Resume(e) ==
  /\ BagIn(e, pending) /\ e.phase = "settled"
  /\ pending' = pending (-) SetToBag({e})
  /\ ret' = [NoRet EXCEPT !.op = IF e.table = "song_ratings" THEN "submitRating"
                                 ELSE "submitStarRating",
                          !.threw = e.threw, !.ok = e.ok]
  /\ UNCHANGED <<DATABASE_TYPE, driver, page, schema, proc, song_ratings, song_star_ratings, now, nstmts,
                 latestRating, latestStar, request, response>>

NextConc ==
  \/ \E s \in ConcSongs, u \in ConcUsers, r \in SentimentArgs :
       CallSubmit("song_ratings", s, u, r)
  \/ \E s \in ConcSongs, u \in ConcUsers, r \in StarArgs :
       CallSubmit("song_star_ratings", s, u, r)
  \/ \E e \in BagToSet(pending) : PgRun(e)
  \/ \E e \in BagToSet(pending) : Resume(e)

SpecConc == Init /\ [][NextConc]_vars

(***************************************************************************)
(* Properties of the repository                                            *)
(***************************************************************************)
Abs(x) == IF x < 0 THEN -x ELSE x

RatedUsers(hist, s) == { h.user_id : h \in { k \in hist : k.song_id = s } }

\* C1: after any sequence of submitRating and submitStarRating calls,
\* successful or rejected, each rating table holds at most one row per
\* (song_id, user_id) pair.
C1_OneRowPerKey ==
  /\ \A x \in song_ratings :
       Cardinality(KeyRows(song_ratings, x.song_id, x.user_id)) <= 1
  /\ \A x \in song_star_ratings :
       Cardinality(KeyRows(song_star_ratings, x.song_id, x.user_id)) <= 1

\* A key has been submitted successfully more than once.
C1_Witness ==
  \E h \in latestRating \cup latestStar : h.count >= 2

\* C2: last write wins: getUserRating / getUserStarRating return the value of
\* the most recent successful submission for the key, and the key has exactly
\* one row.
C2_LastWriteWins ==
  /\ \A h \in latestRating :
       /\ getUserRating(h.song_id, h.user_id) = [none |-> FALSE, rating |-> h.rating]
       /\ Cardinality(KeyRows(song_ratings, h.song_id, h.user_id)) = 1
  /\ \A h \in latestStar :
       /\ getUserStarRating(h.song_id, h.user_id) = [none |-> FALSE, rating |-> h.rating]
       /\ Cardinality(KeyRows(song_star_ratings, h.song_id, h.user_id)) = 1

\* A second successful submission for a key has just returned, with -1.
C2_Witness ==
  /\ ret.op = "submitRating" /\ ret.ok
  /\ \E h \in latestRating : h.count = 2 /\ h.rating = -1

\* C3: for every song, thumbs_up is the number of stored rows with rating 1,
\* thumbs_down the number with rating -1, and their sum the number of
\* distinct users who have rated the song.
C3_SentimentAggregate ==
  \A s \in SongIds :
    LET g == getRatings(s)
    IN  /\ g.thumbs_up =
             Cardinality({ x \in song_ratings : x.song_id = s /\ x.rating = 1 })
        /\ g.thumbs_down =
             Cardinality({ x \in song_ratings : x.song_id = s /\ x.rating = -1 })
        /\ g.thumbs_up + g.thumbs_down = Cardinality(RatedUsers(latestRating, s))

\* Two users rated song1 up and one down, nobody rated song2.
C3_Witness ==
  /\ getRatings("song1") = [thumbs_up |-> 2, thumbs_down |-> 1]
  /\ getRatings("song2") = [thumbs_up |-> 0, thumbs_down |-> 0]

\* C4: for every song with a star row, total_ratings is the number of
\* distinct users who rated it and average_rating (in tenths) is within half
\* a tenth of the mean of the stored values; {5,4} gives 4.5, a mean of 3
\* over two rows gives 3.0 and a single 4 gives 4.0.
C4_StarAggregate ==
  \A s \in SongIds :
    LET g   == getStarRatings(s)
        n   == Cardinality(RatedUsers(latestStar, s))
        sum == SumRating(SongRows(song_star_ratings, s))
    IN  SongRows(song_star_ratings, s) # {} =>
          /\ g.total_ratings = n
          /\ 2 * Abs(g.average_rating * n - 10 * sum) <= n
          /\ (n = 2 /\ sum = 9) => g.average_rating = 45
          /\ (n = 2 /\ sum = 6) => g.average_rating = 30
          /\ (n = 1 /\ sum = 4) => g.average_rating = 40

\* Three users rated song1 with 5, 5 and 4: the mean 4.666... shows as 4.7.
C4_Witness ==
  getStarRatings("song1") = [average_rating |-> 47, total_ratings |-> 3]

\* C5: a successful submission by a user who has not rated the song raises
\* the song's count by one; a successful resubmission leaves the count as it
\* was and the star average is that of the stored values with the old value
\* replaced by the new one.  (The step's key is the history entry it changed.)
C5_CountStep ==
  [][ /\ (ret'.op = "submitRating" /\ ret'.ok /\ nstmts' = nstmts + 1) =>
           \A h \in latestRating' \ latestRating :
             LET c == getRatings(h.song_id).thumbs_up + getRatings(h.song_id).thumbs_down
             IN  c' = IF getUserRating(h.song_id, h.user_id).none THEN c + 1 ELSE c
      /\ (ret'.op = "submitStarRating" /\ ret'.ok /\ nstmts' = nstmts + 1) =>
           \A h \in latestStar' \ latestStar :
             LET g   == getStarRatings(h.song_id)
                 old == getUserStarRating(h.song_id, h.user_id)
                 sum == SumRating(SongRows(song_star_ratings, h.song_id))
             IN  /\ g'.total_ratings =
                      IF old.none THEN g.total_ratings + 1 ELSE g.total_ratings
                 /\ ~old.none =>
                      2 * Abs(g'.average_rating * g.total_ratings
                              - 10 * (sum - old.rating + h.rating)) <= g.total_ratings
                 /\ (~old.none /\ g.total_ratings = 1) =>
                      g'.average_rating = 10 * h.rating
    ]_vars

\* Star 5 then 2 by the same user: average 2.0 and total 1.
C5_Witness ==
  \E h \in latestStar :
    /\ h.count = 2 /\ h.rating = 2
    /\ getStarRatings(h.song_id) = [average_rating |-> 20, total_ratings |-> 1]

(***************************************************************************)
(* Properties of concurrent submissions                                    *)
(***************************************************************************)
\* C6: under every interleaving of submissions in flight at the same time, a
\* key has no row before a statement for it has run, and afterwards exactly
\* one row, holding the value of the submission whose statement ran last.
C6_AtomicUpsert ==
  \A name \in {"song_ratings", "song_star_ratings"}, s \in ConcSongs, u \in ConcUsers :
    LET rows == KeyRows(TableOf(name), s, u)
        hist == HistOf(IF name = "song_ratings" THEN latestRating ELSE latestStar, s, u)
    IN  IF hist = {} THEN rows = {}
        ELSE /\ Cardinality(rows) = 1
             /\ \A x \in rows : \A h \in hist : x.rating = h.rating

\* Two submissions of different values for one key were sent to the server
\* before either statement ran; both have run and the key has one row.
C6_Witness ==
  /\ DATABASE_TYPE = "postgres"
  /\ \E e \in BagToSet(pending), o \in BagToSet(pending) :
       /\ e.phase = "settled" /\ o.phase = "settled"
       /\ e.table = o.table /\ e.songId = o.songId /\ e.userId = o.userId
       /\ e.rating # o.rating
       /\ ~e.threw /\ ~o.threw
       /\ e.raced /\ ~e.seen /\ ~o.seen
       /\ Cardinality(KeyRows(TableOf(e.table), e.songId, e.userId)) = 1

(***************************************************************************)
(* Properties of the routes                                                *)
(***************************************************************************)
NonEmptyString(v) == v.t = "string" /\ v.s # ""

MissingOrEmpty(v) == v = JsUndefined \/ v = JsString("")

NotStored ==
  /\ song_ratings' = song_ratings
  /\ song_star_ratings' = song_star_ratings
  /\ nstmts' = nstmts

Is400(resp) ==
  resp.status = 400 /\ resp.success = FALSE /\ resp.keys = {"success", "error"}

\* C7: POST /api/ratings answers 400 with {success: false, error} and does
\* not call submitRating (table and call count unchanged) whenever songId is
\* missing or empty, userId is missing or empty, or rating is anything but
\* the number 1 or -1.
C7_SentimentRejected ==
  [][ ( /\ request'.route = "POST /api/ratings"
        /\ \/ MissingOrEmpty(request'.songId)
           \/ MissingOrEmpty(request'.userId)
           \/ request'.rating \notin {JsInt(1), JsInt(-1)} )
      => (Is400(response') /\ NotStored)
    ]_vars

\* The string "1" as rating was answered 400 while rows are stored.
C7_Witness ==
  /\ request.route = "POST /api/ratings"
  /\ NonEmptyString(request.songId) /\ NonEmptyString(request.userId)
  /\ request.rating = JsString("1")
  /\ response.status = 400
  /\ song_ratings # {}

\* C8: POST /api/star-ratings answers 400 and does not call submitStarRating
\* whenever rating is not a number-typed integer in 1..5.
C8_StarRejected ==
  [][ ( /\ request'.route = "POST /api/star-ratings"
        /\ request'.rating \notin { JsInt(k) : k \in 1..5 } )
      => (Is400(response') /\ NotStored)
    ]_vars

\* The string "5" as rating was answered 400 while rows are stored.
C8_Witness ==
  /\ request.route = "POST /api/star-ratings"
  /\ NonEmptyString(request.songId) /\ NonEmptyString(request.userId)
  /\ request.rating = JsString("5")
  /\ response.status = 400
  /\ song_star_ratings # {}

\* C9: a submission whose songId or userId is not a non-empty string is
\* answered 400 and does not reach storage.
C9_StringIdsOnly ==
  [][ ( /\ request'.route = "POST /api/ratings"
        /\ (~NonEmptyString(request'.songId) \/ ~NonEmptyString(request'.userId)) )
      => (Is400(response') /\ NotStored)
    ]_vars

\* C10: for non-empty string songId and userId and rating 1 or -1, submit
\* returns true on insert and on update alike and POST /api/ratings answers
\* 200 with exactly {success: true, message}.
C10_SubmitAnswersTrue ==
  ( /\ request.route = "POST /api/ratings"
    /\ NonEmptyString(request.songId) /\ NonEmptyString(request.userId)
    /\ request.rating \in {JsInt(1), JsInt(-1)} )
  => /\ response.status = 200
     /\ response.keys = {"success", "message"}
     /\ response.success = TRUE
     /\ response.text = "Rating submitted successfully"
     /\ response.data = NoData

\* The request answered last updated a row that existed.
C10_Witness ==
  /\ request.route = "POST /api/ratings"
  /\ response.status = 200
  /\ \E h \in latestRating :
       /\ h.count >= 2
       /\ request.songId = JsString(h.song_id)
       /\ request.userId = JsString(h.user_id)
       /\ request.rating = JsInt(h.rating)

(***************************************************************************)
(* Properties of the read operations                                       *)
(***************************************************************************)
\* C11: for a song with no stored rows getRatings returns exactly
\* {thumbs_up: 0, thumbs_down: 0} and getStarRatings exactly
\* {average_rating: 0, total_ratings: 0}, also while other songs have rows;
\* in every state both aggregates are numbers, never the NULL of the query.
C11_ZeroState ==
  \A s \in SongIds :
    /\ SongRows(song_ratings, s) = {} =>
         /\ getRatings(s) = [thumbs_up |-> 0, thumbs_down |-> 0]
         /\ getRatingsSync(s) = [thumbs_up |-> 0, thumbs_down |-> 0]
    /\ SongRows(song_star_ratings, s) = {} =>
         /\ getStarRatings(s) = [average_rating |-> 0, total_ratings |-> 0]
         /\ getStarRatingsSync(s) = [average_rating |-> 0, total_ratings |-> 0]
    /\ getRatings(s).thumbs_up \in Nat /\ getRatings(s).thumbs_down \in Nat
    /\ getStarRatings(s).average_rating \in Nat /\ getStarRatings(s).total_ratings \in Nat

\* One song has rows in both tables while another has none in either.
C11_Witness ==
  \E s \in SongIds, o \in SongIds :
    /\ SongRows(song_ratings, s) = {} /\ SongRows(song_star_ratings, s) = {}
    /\ SongRows(song_ratings, o) # {} /\ SongRows(song_star_ratings, o) # {}

\* C12: getUserRating and getUserStarRating return null exactly when no row
\* exists for that (songId, userId) pair, that is when no submission for the
\* pair has succeeded; rows of the same user for another song or of another
\* user for the same song do not count, and a stored value is reported as is.
C12_NullIffNoRow ==
  \A s \in SongIds, u \in UserIds :
    /\ getUserRating(s, u).none <=> HistOf(latestRating, s, u) = {}
    /\ getUserRating(s, u).none <=> KeyRows(song_ratings, s, u) = {}
    /\ getUserRatingSync(s, u) = getUserRating(s, u)
    /\ \A h \in HistOf(latestRating, s, u) : getUserRating(s, u).rating = h.rating
    /\ getUserStarRating(s, u).none <=> HistOf(latestStar, s, u) = {}
    /\ getUserStarRating(s, u).none <=> KeyRows(song_star_ratings, s, u) = {}
    /\ getUserStarRatingSync(s, u) = getUserStarRating(s, u)
    /\ \A h \in HistOf(latestStar, s, u) : getUserStarRating(s, u).rating = h.rating

\* A pair without a row whose user has rated another song and whose song has
\* been rated by another user.
C12_Witness ==
  \E s \in SongIds, o \in SongIds, u \in UserIds, v \in UserIds :
    /\ s # o /\ u # v
    /\ getUserRating(s, u).none
    /\ ~getUserRating(o, u).none
    /\ ~getUserRating(s, v).none

(***************************************************************************)
(* Both pairs of routes on one server: accepted submissions and reads      *)
(***************************************************************************)
\* Bodies the validators accept, and a caller identity that may be absent.
ReadSongArgs == { JsString("song1"), JsString("7") }
ReadUserArgs == { JsString("user1"), JsString("7") }
ReadRatingArgs == { JsInt(1), JsInt(-1) }
ReadStarArgs == { JsInt(1), JsInt(4), JsInt(5) }

NextHttpRead ==
  \/ \E s \in ReadSongArgs, u \in ReadUserArgs, r \in ReadRatingArgs : PostRatings(s, u, r)
  \/ \E s \in ReadSongArgs, u \in ReadUserArgs, r \in ReadStarArgs : PostStarRatings(s, u, r)
  \/ \E s \in HttpSongPaths, u \in HttpUserQueries : GetRatings(s, u)
  \/ \E s \in HttpSongPaths, u \in HttpUserQueries : GetStarRatings(s, u)

SpecHttpRead == InitHttp /\ [][NextHttpRead]_vars

IsGet(req) ==
  req.route \in {"GET /api/ratings/:songId", "GET /api/star-ratings/:songId"}

\* C13: a GET /api/ratings/:songId or GET /api/star-ratings/:songId request
\* without a userId query parameter, or with an empty one, answers 200 with
\* userRating null whatever rows are stored, and the handler makes no
\* per-user lookup: the aggregate is the last repository call it made.
C13_NoUserNoLookup ==
  [][ ( /\ IsGet(request')
        /\ MissingOrEmpty(request'.userId) )
      => /\ response'.status = 200
         /\ response'.data.none
         /\ ret'.op \in {"getRatings", "getStarRatings"}
    ]_vars

\* A read without userId of a song that the user of the previous requests
\* has rated in both tables.
C13_Witness ==
  /\ IsGet(request)
  /\ MissingOrEmpty(request.userId)
  /\ response.data.none
  /\ KeyRows(song_ratings, request.songId.s, "user1") # {}
  /\ KeyRows(song_star_ratings, request.songId.s, "user1") # {}

(***************************************************************************)
(* server.js with either database module behind require('./database'):     *)
(* database.js, whose functions run the statement and return, or the       *)
(* dual-backend module, whose functions are async and return a promise.    *)
(* The handler is the same code in both cases: it calls submitRating       *)
(* without await inside try / catch.                                       *)
(***************************************************************************)
\* The driver rejects the statement of call e (connection lost, database
\* locked): the promise of the call is rejected and no table changes.
FailCall(e, rest) ==
  LET d == [e EXCEPT !.phase = "settled", !.threw = TRUE, !.ok = FALSE]
  IN  /\ pending' = rest (+) SetToBag({d})
      /\ UNCHANGED <<song_ratings, song_star_ratings, latestRating, latestStar>>

\* app.post('/api/ratings') calling the async submitRating: success is the
\* promise, a truthy object, so the handler answers at once.
PostRatingsDual(songId, userId, rating) ==
  /\ proc.module = "dual"
  /\ request' = [route |-> "POST /api/ratings", songId |-> songId,
                 userId |-> userId, rating |-> rating]
  /\ IF RatingBodyRejected(songId, userId, rating)
     THEN /\ response' = Resp400("Song ID, user ID, and rating (1 or -1) are required")
          /\ ret' = NoRet
          /\ UNCHANGED <<song_ratings, song_star_ratings, nstmts, latestRating,
                         latestStar, pending>>
     ELSE /\ nstmts < MaxStmts
          /\ BagCardinality(pending) < MaxInFlight
          /\ nstmts' = nstmts + 1
          /\ LET e == Call("song_ratings", songId.s, userId.s, rating.n \div 10)
             IN  IF DATABASE_TYPE = "postgres"
                 THEN /\ pending' = pending (+) SetToBag({e})
                      /\ UNCHANGED <<song_ratings, song_star_ratings, latestRating,
                                     latestStar>>
                 ELSE RunCall(e, pending) \/ FailCall(e, pending)
          /\ response' = [NoResponse EXCEPT !.status = 200,
                                            !.keys = {"success", "message"},
                                            !.promise = TRUE,
                                            !.text = "Rating submitted successfully"]
          /\ ret' = [NoRet EXCEPT !.op = "submitRating"]
  /\ UNCHANGED <<DATABASE_TYPE, driver, page, schema, proc, now>>

\* The connection of a statement sent to the PostgreSQL server fails.
PgFail(e) ==
  /\ DATABASE_TYPE = "postgres"
  /\ BagIn(e, pending) /\ e.phase = "sent"
  /\ FailCall(e, pending (-) SetToBag({e}))
  /\ UNCHANGED <<DATABASE_TYPE, driver, page, schema, proc, now, nstmts, ret, request, response>>

\* The promise of a call the handler did not await has settled: a fulfilled
\* one is dropped, a rejected one is an unhandled rejection.
Settle(e) ==
  /\ BagIn(e, pending) /\ e.phase = "settled"
  /\ pending' = pending (-) SetToBag({e})
  /\ proc' = [proc EXCEPT !.uncaught = proc.uncaught \/ e.threw]
  /\ UNCHANGED <<DATABASE_TYPE, driver, page, schema, song_ratings, song_star_ratings, now, nstmts,
                 ret, latestRating, latestStar, request, response>>

WiredSongArgs == { JsString("song1"), JsTrue }
WiredUserArgs == { JsUndefined, JsString("user1"), JsString("user2") }
WiredRatingArgs == { JsInt(1), JsInt(-1), JsInt(2) }

InitWired ==
  /\ DATABASE_TYPE \in {"sqlite", "postgres"}
  /\ proc \in { Started(m) : m \in IF DATABASE_TYPE = "sqlite"
                                    THEN {"database.js", "dual"} ELSE {"dual"} }
  /\ song_ratings = {}
  /\ song_star_ratings = {}
  /\ now = 0
  /\ nstmts = 0
  /\ ret = NoRet
  /\ latestRating = {}
  /\ latestStar = {}
  /\ request = NoRequest
  /\ response = NoResponse
  /\ pending = EmptyBag
  /\ driver = NoCall
  /\ page = NoPage
  /\ schema = RatingTables

NextWired ==
  \/ /\ proc.module = "database.js"
     /\ \E s \in WiredSongArgs, u \in WiredUserArgs, r \in WiredRatingArgs :
          PostRatings(s, u, r)
  \/ \E s \in WiredSongArgs \ {JsTrue}, u \in WiredUserArgs, r \in WiredRatingArgs :
       PostRatingsDual(s, u, r)
  \/ \E e \in BagToSet(pending) : PgRun(e)
  \/ \E e \in BagToSet(pending) : PgFail(e)
  \/ \E e \in BagToSet(pending) : Settle(e)

SpecWired == InitWired /\ [][NextWired]_vars

\* C14: every error of a repository operation during a rating request, thrown
\* or delivered as a rejected promise, is answered with HTTP 500
\* {success: false, error}; none escapes uncaught and no failed call is
\* answered as a success.
C14_ErrorsAnswered500 ==
  /\ ~proc.uncaught
  /\ ret.threw => (response.status = 500 /\ response.keys = {"success", "error"}
                   /\ ~response.success)
  /\ \A e \in BagToSet(pending) :
       (e.phase = "settled" /\ e.threw /\ BagCardinality(pending) = 1
          /\ request.route = "POST /api/ratings" /\ ret.op = "submitRating")
       => response.status = 500

(***************************************************************************)
(* Process start: server.js requires the database module, whose last       *)
(* top-level statement calls initDatabase(), and then calls app.listen().  *)
(* The database file or server outlives the process.                       *)
(***************************************************************************)
\* Tables the schema statement of each module creates if they do not exist.
SchemaOf(module) ==
  IF module = "dual" THEN RatingTables ELSE {"song_ratings"}

\* CREATE TABLE IF NOT EXISTS ...: existing tables and their rows are kept.
CreateTables(module) ==
  /\ schema' = schema \cup SchemaOf(module)
  /\ UNCHANGED <<song_ratings, song_star_ratings, latestRating, latestStar>>

\* Dual-backend module, load: initDatabase().catch(...) is called and not
\* awaited.  Embedded engine: dbInstance.exec() runs inside the call; if it
\* throws, the promise is rejected and the .catch callback is queued.
\* PostgreSQL: the schema query is sent and the call is left pending.
LoadDual ==
  /\ proc.module = "dual" /\ proc.init = "idle" /\ ~proc.exited
  /\ IF DATABASE_TYPE = "postgres"
     THEN /\ proc' = [proc EXCEPT !.init = "pending"]
          /\ UNCHANGED <<schema, song_ratings, song_star_ratings, latestRating, latestStar>>
     ELSE \/ /\ CreateTables("dual")
             /\ proc' = [proc EXCEPT !.init = "done"]
          \/ /\ proc' = [proc EXCEPT !.init = "failed", !.micro = TRUE]
             /\ UNCHANGED <<schema, song_ratings, song_star_ratings, latestRating,
                            latestStar>>
  /\ UNCHANGED <<DATABASE_TYPE, driver, page, now, nstmts, ret, request, response, pending>>

\* database.js, load: initDatabase() runs db.exec() and returns; if it throws,
\* require('./database') throws and server.js ends before app.listen().
LoadSync ==
  /\ proc.module = "database.js" /\ proc.init = "idle" /\ ~proc.exited
  /\ \/ /\ CreateTables("database.js")
        /\ proc' = [proc EXCEPT !.init = "done"]
     \/ /\ proc' = [proc EXCEPT !.init = "failed", !.exited = TRUE]
        /\ UNCHANGED <<schema, song_ratings, song_star_ratings, latestRating, latestStar>>
  /\ UNCHANGED <<DATABASE_TYPE, driver, page, now, nstmts, ret, request, response, pending>>

\* server.js: app.listen(PORT), reached once require('./database') returned.
Listen ==
  /\ proc.init # "idle" /\ ~proc.listening /\ ~proc.exited
  /\ proc' = [proc EXCEPT !.listening = TRUE]
  /\ UNCHANGED <<DATABASE_TYPE, driver, page, schema, song_ratings, song_star_ratings, now, nstmts,
                 ret, latestRating, latestStar, request, response, pending>>

\* The queued .catch callback runs when the main script has ended, before the
\* event loop takes any connection: process.exit(1).
InitCatch ==
  /\ proc.micro /\ proc.listening /\ ~proc.exited
  /\ proc' = [proc EXCEPT !.micro = FALSE, !.exited = TRUE]
  /\ UNCHANGED <<DATABASE_TYPE, driver, page, schema, song_ratings, song_star_ratings, now, nstmts,
                 ret, latestRating, latestStar, request, response, pending>>

\* The PostgreSQL server has run the schema query.
PgInitDone ==
  /\ proc.init = "pending" /\ ~proc.exited
  /\ CreateTables("dual")
  /\ proc' = [proc EXCEPT !.init = "done"]
  /\ UNCHANGED <<DATABASE_TYPE, driver, page, now, nstmts, ret, request, response, pending>>

\* The schema query is rejected (no connection, no permission): the .catch
\* callback runs, process.exit(1).
PgInitFail ==
  /\ proc.init = "pending" /\ ~proc.exited
  /\ proc' = [proc EXCEPT !.init = "failed", !.exited = TRUE]
  /\ UNCHANGED <<DATABASE_TYPE, driver, page, schema, song_ratings, song_star_ratings, now, nstmts,
                 ret, latestRating, latestStar, request, response, pending>>

\* The process is started again on the same database; statements a former
\* process had sent and not yet seen answered are lost with its connections.
Restart ==
  /\ proc.exited \/ proc.listening
  /\ proc' = [NotStarted EXCEPT !.module = proc.module]
  /\ request' = NoRequest
  /\ response' = NoResponse
  /\ ret' = NoRet
  /\ pending' = EmptyBag
  /\ UNCHANGED <<DATABASE_TYPE, driver, page, schema, song_ratings, song_star_ratings, now, nstmts,
                 latestRating, latestStar>>

\* The event loop takes requests once app.listen() was called and the main
\* script and its queued callbacks have run.
Accepting == proc.listening /\ ~proc.exited /\ ~proc.micro

BootSongArgs == { JsString("song1") }
BootUserArgs == { JsUndefined, JsString("user1"), JsString("user2") }
BootRatingArgs == { JsInt(1), JsInt(-1) }

InitBoot ==
  /\ DATABASE_TYPE \in {"sqlite", "postgres"}
  /\ proc \in { [NotStarted EXCEPT !.module = m] :
                  m \in IF DATABASE_TYPE = "sqlite"
                        THEN {"database.js", "dual"} ELSE {"dual"} }
  /\ schema = {}
  /\ song_ratings = {}
  /\ song_star_ratings = {}
  /\ now = 0
  /\ nstmts = 0
  /\ ret = NoRet
  /\ latestRating = {}
  /\ latestStar = {}
  /\ request = NoRequest
  /\ response = NoResponse
  /\ pending = EmptyBag
  /\ driver = NoCall
  /\ page = NoPage

NextBoot ==
  \/ LoadDual
  \/ LoadSync
  \/ Listen
  \/ InitCatch
  \/ PgInitDone
  \/ PgInitFail
  \/ Restart
  \/ /\ Accepting /\ proc.module = "database.js"
     /\ \E s \in BootSongArgs, u \in BootUserArgs, r \in BootRatingArgs :
          PostRatings(s, u, r)
  \/ /\ Accepting
     /\ \E s \in BootSongArgs, u \in BootUserArgs, r \in BootRatingArgs :
          PostRatingsDual(s, u, r)
  \/ /\ ~proc.exited
     /\ \E e \in BagToSet(pending) : e.table \in schema /\ PgRun(e)
  \/ /\ ~proc.exited
     /\ \E e \in BagToSet(pending) : PgFail(e)
  \/ /\ ~proc.exited
     /\ \E e \in BagToSet(pending) : Settle(e)

SpecBoot == InitBoot /\ [][NextBoot]_vars

(***************************************************************************)
(* Properties of process start                                             *)
(***************************************************************************)
\* C15: schema creation has run to completion before any repository call is
\* executed: every step in which a handler calls the repository is taken
\* with initDatabase() completed.
C15_InitBeforeCalls ==
  [][ (ret'.op # "none" /\ (ret' # ret \/ nstmts' # nstmts))
      => proc.init = "done"
    ]_vars

\* C16: a process whose schema creation fails has not handled any HTTP
\* request, neither before nor after the failure.
C16_FailedInitServesNothing ==
  proc.init = "failed" => request = NoRequest

\* C17: every completed run of initDatabase leaves both rating tables in
\* existence, leaves the schema as it was if both existed, and leaves every
\* rating row unchanged.
C17_InitIdempotent ==
  [][ (proc.init # "done" /\ proc'.init = "done")
      => /\ RatingTables \subseteq schema'
         /\ RatingTables \subseteq schema => schema' = schema
         /\ song_ratings' = song_ratings
         /\ song_star_ratings' = song_star_ratings
    ]_vars

(***************************************************************************)
(* Properties relating the two branches and the two rating kinds           *)
(***************************************************************************)
\* C18: the embedded and the PostgreSQL branch are observationally
\* equivalent.  In every reachable state each aggregate gives the same
\* result on both branches (same counts, same one-decimal average), and for
\* every in-domain submission both branches return the same boolean and
\* leave the same rows, so the tables of the two branches stay the same along
\* every sequence of calls.
C18_BranchesAgree ==
  /\ \A s \in SongIds :
       /\ getRatingsOn("sqlite", s) = getRatingsOn("postgres", s)
       /\ getStarRatingsOn("sqlite", s) = getStarRatingsOn("postgres", s)
  /\ \A s \in SongIds, u \in UserIds :
       /\ \A r \in {1, -1} :
            SubmitAs("sqlite", song_ratings, "song_ratings", s, u, r, now)
              = SubmitAs("postgres", song_ratings, "song_ratings", s, u, r, now)
       /\ \A r \in 1..5 :
            SubmitAs("sqlite", song_star_ratings, "song_star_ratings", s, u, r, now)
              = SubmitAs("postgres", song_star_ratings, "song_star_ratings", s, u, r, now)

\* The PostgreSQL branch reads counts from text and the average 4.7 from the
\* numeric 4.6666666666666667.
C18_Witness ==
  /\ DATABASE_TYPE = "postgres"
  /\ getStarRatingsOn("postgres", "song1") = [average_rating |-> 47, total_ratings |-> 3]
  /\ DriverAvg("postgres", SqlAvg(SongRows(song_star_ratings, "song1"))).frac[16] = 7
  /\ getStarRatingsOn("sqlite", "song1").average_rating = 47

\* C19: the two rating kinds are independent.  A submitRating step changes
\* the result of getStarRatings for no song and of getUserStarRating for no
\* song and user; a submitStarRating step changes the result of getRatings
\* for no song and of getUserRating for no song and user.
C19_KindsIndependent ==
  [][ /\ ret'.op = "submitRating" =>
           \A s \in SongIds :
             /\ getStarRatings(s)' = getStarRatings(s)
             /\ \A u \in UserIds : getUserStarRating(s, u)' = getUserStarRating(s, u)
      /\ ret'.op = "submitStarRating" =>
           \A s \in SongIds :
             /\ getRatings(s)' = getRatings(s)
             /\ \A u \in UserIds : getUserRating(s, u)' = getUserRating(s, u)
    ]_vars

\* One user holds a sentiment and a star rating for the same song at once,
\* the sentiment rating submitted after the star rating.
C19_Witness ==
  /\ ret.op = "submitRating" /\ ret.ok
  /\ \E s \in SongIds, u \in UserIds :
       /\ getUserRating(s, u) = [none |-> FALSE, rating |-> -1]
       /\ getUserStarRating(s, u) = [none |-> FALSE, rating |-> 4]
       /\ getStarRatings(s) = [average_rating |-> 40, total_ratings |-> 1]
       /\ getRatings(s) = [thumbs_up |-> 0, thumbs_down |-> 1]

(***************************************************************************)
(* getStarRatings as a function of the values stored for one song: the     *)
(* table holds up to MaxRows star ratings of song1, one per user, and       *)
(* getStarRatings("song1") is called once.                                 *)
(***************************************************************************)
MaxRows == 20

\* Number of rows with a value up to v, for the counts c[1] .. c[5].
RECURSIVE UpTo(_, _)
UpTo(c, v) == IF v = 0 THEN 0 ELSE c[v] + UpTo(c, v - 1)

\* The table in which c[v] users have rated song1 with v.
StoredValues(c) ==
  { Row("song1", "user" \o ToString(i),
        CHOOSE v \in 1..5 : UpTo(c, v - 1) < i /\ i <= UpTo(c, v), 0) : i \in 1..UpTo(c, 5) }

InitRound ==
  /\ DATABASE_TYPE \in {"sqlite", "postgres"}
  /\ song_ratings = {}
  /\ \E c1 \in 0..MaxRows : \E c2 \in 0..(MaxRows - c1) :
     \E c3 \in 0..(MaxRows - c1 - c2) : \E c4 \in 0..(MaxRows - c1 - c2 - c3) :
     \E c5 \in 0..(MaxRows - c1 - c2 - c3 - c4) :
       song_star_ratings = StoredValues(<<c1, c2, c3, c4, c5>>)
  /\ now = 0
  /\ nstmts = 0
  /\ ret = NoRet
  /\ latestRating = {}
  /\ latestStar = {}
  /\ request = NoRequest
  /\ response = NoResponse
  /\ pending = EmptyBag
  /\ driver = NoCall
  /\ page = NoPage
  /\ schema = RatingTables
  /\ proc = Started("dual")

\* await getStarRatings("song1")
ReadStarRatings ==
  /\ ret.op = "none"
  /\ LET ratings == getStarRatings("song1")
     IN  ret' = [NoRet EXCEPT !.op = "getStarRatings", !.a = ratings.average_rating,
                              !.b = ratings.total_ratings]
  /\ UNCHANGED <<DATABASE_TYPE, driver, page, schema, proc, song_ratings, song_star_ratings, now, nstmts,
                 latestRating, latestStar, request, response, pending>>

NextRound == ReadStarRatings

SpecRound == InitRound /\ [][NextRound]_vars

\* The mean num / den lies halfway between two one-decimal numbers.
Halfway(num, den) == 2 * ((10 * num) % den) = den

\* The tenths a rounding mode prescribes for a mean halfway between two.
Prescribed(mode, num, den) ==
  LET lo == (10 * num) \div den
  IN  IF mode = "half-up" THEN lo + 1
      ELSE IF lo % 2 = 0 THEN lo ELSE lo + 1

\* The modes that account for average_rating on every table of up to four
\* rows with a halfway mean, {3,3,3,4} among them, on both branches.
ModesOfSmallTables ==
  { mode \in {"half-up", "half-even"} :
      \A den \in 1..4 : \A num \in den..(5 * den) : \A db \in {"sqlite", "postgres"} :
        Halfway(num, den) =>
          AverageOf(DriverAvg(db, [isNull |-> FALSE, num |-> num, den |-> den]))
            = Prescribed(mode, num, den) }

\* C20: one rounding mode, half-up or half-to-even, gives average_rating for
\* every table whose mean lies halfway between two one-decimal numbers: a
\* mode that accounts for the small tables also accounts for the table read.
C20_SingleRoundingMode ==
  (ret.op = "getStarRatings" /\ ret.b > 0) =>
    LET rows == SongRows(song_star_ratings, "song1")
        num  == SumRating(rows)
        den  == Cardinality(rows)
    IN  Halfway(num, den) =>
          \E mode \in ModesOfSmallTables : ret.a = Prescribed(mode, num, den)

(***************************************************************************)
(* The driver helpers query, queryOne and execute, called once with an SQL *)
(* text, a parameter list and an engine that answers or raises.  An SQL    *)
(* text is the sequence of its characters; a rewritten text is the         *)
(* sequence of the pieces its characters have become.                      *)
(***************************************************************************)
MaxSqlLen == 4
MaxParams == 2

\* A placeholder, an ordinary character, and the sign of a native
\* placeholder.
SqlChars == {"?", "a", "$"}

SqlTexts == UNION { [1..n -> SqlChars] : n \in 0..MaxSqlLen }

ParamLists == UNION { [1..n -> {JsString("song1"), JsInt(5)}] : n \in 0..MaxParams }

\* What the engine does with a statement: it raises an error, or answers
\* with rows.
EngineErrors == {"connection failure", "constraint violation", "syntax error"}

EngineRows == { <<>>, <<[id |-> 1]>>, <<[id |-> 1], [id |-> 2]>> }

EngineOutcomes ==
  { [error |-> e, rows |-> <<>>] : e \in EngineErrors }
    \cup { [error |-> "none", rows |-> rows] : rows \in EngineRows }

\* Variant: replace without the g flag, only the first '?' is rewritten.
RECURSIVE ReplaceAll_firstOnly(_, _)
ReplaceAll_firstOnly(sql, paramIndex) ==
  IF sql = <<>> THEN <<>>
  ELSE IF Head(sql) = "?" /\ paramIndex = 1
       THEN <<"$" \o ToString(paramIndex)>> \o ReplaceAll_firstOnly(Tail(sql), paramIndex + 1)
       ELSE <<Head(sql)>> \o ReplaceAll_firstOnly(Tail(sql), paramIndex)
\* sql.replace(/\?/g, () => `$${paramIndex++}`): from left to right, every
\* '?' becomes '$' and the current paramIndex, which then goes up by one.
RECURSIVE ReplaceAll(_, _)
ReplaceAll(sql, paramIndex) ==
  IF sql = <<>> THEN <<>>
  ELSE IF Head(sql) = "?"
       THEN <<"$" \o ToString(paramIndex)>> \o ReplaceAll(Tail(sql), paramIndex + 1)
       ELSE <<Head(sql)>> \o ReplaceAll(Tail(sql), paramIndex)

\* What the helper resolves with when the engine has answered.
Resolved(fn, rows) ==
  [null    |-> fn = "queryOne" /\ rows = <<>>,
   rows    |-> IF fn = "query" THEN rows
               ELSE IF fn = "queryOne" /\ rows # <<>> THEN <<rows[1]>> ELSE <<>>,
   changes |-> IF fn = "execute" THEN Len(rows) ELSE 0]

\* Variant: the catch block resolves with null.
Reject_resolveNull(error) ==
  [settled |-> "resolved", error |-> "none"]
\* catch (error) { reject(error); }
Reject(error) ==
  [settled |-> "rejected", error |-> error]

\* await dbInstance.query(pgSql, params) when the pool rejects: the async
\* function ends by throwing what the await threw.
AwaitThrows(error) ==
  [settled |-> "rejected", error |-> error]

\* One call of query, queryOne or execute.
DriverCall(fn, sql, params, engine) ==
  LET sentSql == IF DATABASE_TYPE = "postgres" THEN ReplaceAll(sql, 1) ELSE sql
      end     == IF engine.error = "none" THEN [settled |-> "resolved", error |-> "none"]
                 ELSE IF DATABASE_TYPE = "postgres" THEN AwaitThrows(engine.error)
                 ELSE Reject(engine.error)
  IN  /\ driver' = [fn |-> fn, sql |-> sql, params |-> params,
                    sentSql |-> sentSql, sentParams |-> params,
                    engineError |-> engine.error,
                    settled |-> end.settled, error |-> end.error,
                    value |-> IF end.settled = "resolved" /\ engine.error = "none"
                              THEN Resolved(fn, engine.rows)
                              ELSE NoCall.value]
      /\ UNCHANGED <<DATABASE_TYPE, page, schema, proc, song_ratings, song_star_ratings,
                     now, nstmts, ret, latestRating, latestStar, request, response,
                     pending>>

InitDriver ==
  /\ DATABASE_TYPE \in {"sqlite", "postgres"}
  /\ song_ratings = {}
  /\ song_star_ratings = {}
  /\ now = 0
  /\ nstmts = 0
  /\ ret = NoRet
  /\ latestRating = {}
  /\ latestStar = {}
  /\ request = NoRequest
  /\ response = NoResponse
  /\ pending = EmptyBag
  /\ driver = NoCall
  /\ page = NoPage
  /\ schema = RatingTables
  /\ proc = Started("dual")

\* One call is made.
NextDriver ==
  /\ driver.fn = "none"
  /\ \E fn \in {"query", "queryOne", "execute"}, sql \in SqlTexts, params \in ParamLists,
        engine \in EngineOutcomes :
       DriverCall(fn, sql, params, engine)

SpecDriver == InitDriver /\ [][NextDriver]_vars

\* C21: on the PostgreSQL branch the text sent to the engine has a piece for
\* every character of the SQL text; the piece of the k-th '?' from the left
\* is '$k', the piece of any other character is that character, and the
\* parameter list is sent as it was given.
C21_Placeholders ==
  (driver.fn # "none" /\ DATABASE_TYPE = "postgres") =>
    /\ Len(driver.sentSql) = Len(driver.sql)
    /\ \A i \in 1..Len(driver.sql) :
         driver.sentSql[i] =
           IF driver.sql[i] = "?"
           THEN "$" \o ToString(Cardinality({ j \in 1..i : driver.sql[j] = "?" }))
           ELSE driver.sql[i]
    /\ driver.sentParams = driver.params

\* execute on the PostgreSQL branch with three placeholders around other
\* characters and two parameters.
C21_Witness ==
  /\ DATABASE_TYPE = "postgres"
  /\ driver.fn = "execute"
  /\ driver.sql = <<"?", "$", "?", "?">>
  /\ driver.sentSql = <<"$1", "$", "$2", "$3">>
  /\ driver.sentParams = <<JsString("song1"), JsInt(5)>>

\* C22: when the engine raises an error during query, queryOne or execute,
\* the call's promise is rejected with that error, on either branch; it is
\* not resolved and carries no other error.
C22_SameError ==
  (driver.fn # "none" /\ driver.engineError # "none") =>
    /\ driver.settled = "rejected"
    /\ driver.error = driver.engineError

\* queryOne on the embedded branch, rejected with the engine's error.
C22_Witness ==
  /\ DATABASE_TYPE = "sqlite"
  /\ driver.fn = "queryOne"
  /\ driver.engineError = "constraint violation"
  /\ driver.settled = "rejected"
  /\ driver.error = "constraint violation"

(***************************************************************************)
(* Properties of the stored rows                                           *)
(***************************************************************************)
\* C23: every stored sentiment rating is 1 or -1 and every stored star
\* rating is an integer in 1..5; a direct call of a submit function with an
\* integer outside the domain throws and stores nothing, for every key and on
\* every table reached.
C23_StoredInDomain ==
  /\ \A x \in song_ratings : x.rating \in {1, -1}
  /\ \A x \in song_star_ratings : x.rating \in 1..5
  /\ \A s \in SongIds, u \in UserIds :
       /\ \A r \in SentimentArgs \ {1, -1} :
            LET c == SubmitOn(song_ratings, "song_ratings", s, u, r, now)
            IN  c.threw /\ \A x \in c.rows : x.rating \in {1, -1}
       /\ \A r \in StarArgs \ (1..5) :
            LET c == SubmitOn(song_star_ratings, "song_star_ratings", s, u, r, now)
            IN  c.threw /\ \A x \in c.rows : x.rating \in 1..5

\* Both tables hold rows and the call made last, a direct submitStarRating,
\* has thrown.
C23_Witness ==
  /\ ret.op = "submitStarRating" /\ ret.threw
  /\ song_ratings # {} /\ song_star_ratings # {}

(***************************************************************************)
(* Awaited submissions under a running clock: a call is made when no other *)
(* is in flight, its statement runs at the engine's current time, and the  *)
(* caller resumes.  The settled call stays in pending until the caller     *)
(* resumes, so a state shows the key and the outcome of the statement run  *)
(* last.                                                                   *)
(***************************************************************************)
MaxTime == 2

ClockSongs == { "song1", "song2" }
ClockUsers == { "user1", "user2" }

\* Time passes.
Tick ==
  /\ now < MaxTime
  /\ now' = now + 1
  /\ UNCHANGED <<DATABASE_TYPE, driver, page, schema, proc, song_ratings,
                 song_star_ratings, nstmts, ret, latestRating, latestStar, request,
                 response, pending>>

\* Awaited submissions, the clock standing still.
NextAwaited ==
  \/ /\ pending = EmptyBag
     /\ \E s \in ClockSongs, u \in ClockUsers, r \in SentimentArgs :
          CallSubmit("song_ratings", s, u, r)
  \/ /\ pending = EmptyBag
     /\ \E s \in ClockSongs, u \in ClockUsers, r \in StarArgs :
          CallSubmit("song_star_ratings", s, u, r)
  \/ \E e \in BagToSet(pending) : PgRun(e)
  \/ \E e \in BagToSet(pending) : Resume(e)

SpecAwaited == Init /\ [][NextAwaited]_vars

\* Awaited submissions under a running clock.
NextClock == NextAwaited \/ Tick

SpecClock == Init /\ [][NextClock]_vars

\* The statement of call e has run in this step.
JustRun(e) == e.phase = "settled" /\ BagIn(e, pending') /\ ~BagIn(e, pending)

\* C24: a submit call whose statement fails leaves both tables as they
\* were: no row is added, removed or changed, the row of the key included.
C24_FailedSubmitNoEffect ==
  [][ \A e \in BagToSet(pending') :
        (JustRun(e) /\ e.threw) =>
          /\ song_ratings' = song_ratings
          /\ song_star_ratings' = song_star_ratings ]_vars

\* A call for a key that had a row has failed, and the key's row still
\* carries a timestamp before the time of the failed call.
C24_Witness ==
  \E e \in BagToSet(pending) :
    /\ e.phase = "settled" /\ e.threw /\ e.seen
    /\ \E x \in KeyRows(TableOf(e.table), e.songId, e.userId) : x.created_at < now

\* C25: the statement of a submission for (songId, userId) changes the
\* per-user result of no other pair and the aggregates of no other song, for
\* both rating kinds.
C25_OtherKeysUntouched ==
  [][ \A e \in BagToSet(pending') :
        JustRun(e) =>
          /\ \A s \in ClockSongs, u \in ClockUsers :
               (s # e.songId \/ u # e.userId) =>
                 /\ getUserRating(s, u)' = getUserRating(s, u)
                 /\ getUserStarRating(s, u)' = getUserStarRating(s, u)
          /\ \A s \in ClockSongs \ {e.songId} :
               /\ getRatings(s)' = getRatings(s)
               /\ getStarRatings(s)' = getStarRatings(s) ]_vars

\* A successful submission for a key while another user has rated the same
\* song and the same user has rated another song.
C25_Witness ==
  \E e \in BagToSet(pending) :
    /\ e.phase = "settled" /\ e.ok
    /\ \E x \in SongRows(TableOf(e.table), e.songId) : x.user_id # e.userId
    /\ \E x \in TableOf(e.table) : x.song_id # e.songId /\ x.user_id = e.userId

\* C27: a successful submission leaves the key's row with created_at equal
\* to the time at which its statement ran, whether the row was inserted or
\* updated; and no step lowers the timestamp of a row.
C27_TimestampFollowsSubmission ==
  [][ /\ \A e \in BagToSet(pending') :
           (JustRun(e) /\ e.ok) =>
             /\ KeyRows(TableOf(e.table)', e.songId, e.userId) # {}
             /\ \A x \in KeyRows(TableOf(e.table)', e.songId, e.userId) :
                  x.created_at = now
      /\ \A x \in song_ratings :
           \E y \in KeyRows(song_ratings', x.song_id, x.user_id) :
             y.created_at >= x.created_at
      /\ \A x \in song_star_ratings :
           \E y \in KeyRows(song_star_ratings', x.song_id, x.user_id) :
             y.created_at >= x.created_at ]_vars

\* A key that had a row was successfully resubmitted at time 2 and carries
\* that time, next to a row of time 0.
C27_Witness ==
  \E e \in BagToSet(pending) :
    /\ e.phase = "settled" /\ e.ok /\ e.seen /\ now = 2
    /\ KeyRows(TableOf(e.table), e.songId, e.userId)
         = { Row(e.songId, e.userId, e.rating, 2) }
    /\ \E x \in TableOf(e.table) : x.created_at = 0

\* C26: no step removes the row of a key, so a key for which the per-user
\* lookup has returned a value never reads as null again; and a step that
\* serves a GET request leaves both tables as they were.
C26_NeverDeleted ==
  [][ /\ \A x \in song_ratings :
           /\ KeyRows(song_ratings', x.song_id, x.user_id) # {}
           /\ ~getUserRatingSync(x.song_id, x.user_id).none =>
                ~getUserRatingSync(x.song_id, x.user_id)'.none
      /\ \A x \in song_star_ratings :
           /\ KeyRows(song_star_ratings', x.song_id, x.user_id) # {}
           /\ ~getUserStarRatingSync(x.song_id, x.user_id).none =>
                ~getUserStarRatingSync(x.song_id, x.user_id)'.none
      /\ IsGet(request') =>
           /\ song_ratings' = song_ratings
           /\ song_star_ratings' = song_star_ratings
    ]_vars

\* A GET with userId has returned the user's star rating while the star
\* table holds two rows and the sentiment table one.
C26_Witness ==
  /\ IsGet(request) /\ response.status = 200
  /\ ret.op = "getUserStarRating" /\ ~ret.none
  /\ Cardinality(song_ratings) = 1 /\ Cardinality(song_star_ratings) = 2

(***************************************************************************)
(* public/app.js: the rating functions of the page.  A call is one step:   *)
(* getUserId runs when the call is made, and everything a call does to the *)
(* page after its last await happens without interruption.  fetch is the   *)
(* environment: it rejects, or answers with a body that cannot be parsed,  *)
(* or with a JSON body.                                                    *)
(***************************************************************************)
MaxCalls == 3

\* 'user_' + Date.now() + '_' + Math.random().toString(36).substring(2, 15)
GeneratedIds == { "user_1_a", "user_2_b" }

\* What localStorage holds under 'radioUserId' when the page is opened.
StoredIds == { JsNull, JsString(""), JsString("user_0_x") }

\* The page as opened: counts 0, no button active, filled stars, nothing
\* logged.  userId is the value getUserId returned last; threw tells
\* whether the call made last has thrown to its caller; last is the call
\* made last and what fetch answered.
NoCallYet == [fn |-> "none", outcome |-> "none", userRating |-> JsNull, rating |-> 0]

Opened(stored, filled) ==
  [open |-> TRUE, localStorage |-> stored, userId |-> "",
   thumbsUpCount |-> "0", thumbsDownCount |-> "0",
   thumbsUpBtn |-> FALSE, thumbsDownBtn |-> FALSE, stars |-> filled,
   errors |-> 0, message |-> "", threw |-> FALSE, calls |-> 0, last |-> NoCallYet]

\* Answers of fetch to a GET /api/ratings/:songId.
Failures == { "fetch rejects", "json rejects", "success false" }

RatingsAnswers ==
  { [outcome |-> f, thumbs_up |-> 0, thumbs_down |-> 0, userRating |-> JsNull] :
      f \in Failures }
    \cup { [outcome |-> "success", thumbs_up |-> c[1], thumbs_down |-> c[2], userRating |-> v] :
             c \in { <<0, 0>>, <<2, 1>> },
             v \in { JsNull, JsInt(1), JsInt(-1), JsString("1") } }

\* Answers of fetch to a GET /api/star-ratings/:songId.
StarAnswers ==
  { [outcome |-> f, userRating |-> JsNull] : f \in Failures }
    \cup { [outcome |-> "success", userRating |-> v] : v \in { JsNull, JsInt(2), JsInt(5) } }

\* Answers of fetch to a POST.
PostAnswers == Failures \cup { "success" }

\* Variant: the generated id is returned but not stored.
getUserId_notStored(p, fresh) ==
  IF ~Truthy(p.localStorage)
  THEN [p EXCEPT !.userId = fresh]
  ELSE [p EXCEPT !.userId = p.localStorage.s]
\* getUserId(): the page after the call, userId the value returned.
getUserId(p, fresh) ==
  IF ~Truthy(p.localStorage)
  THEN [p EXCEPT !.userId = fresh, !.localStorage = JsString(fresh)]
  ELSE [p EXCEPT !.userId = p.localStorage.s]

\* catch (error) { console.error(message, error); }
ConsoleError(p, message) ==
  [p EXCEPT !.errors = p.errors + 1, !.message = message]

\* Variant: the classes are added without removing 'active' first.
Highlight_noRemove(p, userRating) ==
  IF StrictEquals(userRating, 1) THEN [p EXCEPT !.thumbsUpBtn = TRUE]
  ELSE IF StrictEquals(userRating, -1) THEN [p EXCEPT !.thumbsDownBtn = TRUE]
  ELSE p
\* Both buttons lose 'active', then the button of the user's rating gets it.
Highlight(p, userRating) ==
  LET cleared == [p EXCEPT !.thumbsUpBtn = FALSE, !.thumbsDownBtn = FALSE]
  IN  IF StrictEquals(userRating, 1) THEN [cleared EXCEPT !.thumbsUpBtn = TRUE]
      ELSE IF StrictEquals(userRating, -1) THEN [cleared EXCEPT !.thumbsDownBtn = TRUE]
      ELSE cleared

\* updateStarDisplay(rating): the stars with index < rating are not 'empty'.
updateStarDisplay(p, rating) ==
  [p EXCEPT !.stars = IF rating < 0 THEN 0 ELSE IF rating > 5 THEN 5 ELSE rating]

\* The body of loadRatings after getUserId.
loadRatingsBody(p, answer) ==
  IF answer.outcome \in {"fetch rejects", "json rejects"}
  THEN ConsoleError(p, "Error loading ratings:")
  ELSE IF answer.outcome = "success"
       THEN Highlight([p EXCEPT !.thumbsUpCount = ToString(answer.thumbs_up),
                                !.thumbsDownCount = ToString(answer.thumbs_down)],
                      answer.userRating)
       ELSE p

\* loadRatings(songId)
loadRatings(fresh, answer) ==
  /\ page.calls < MaxCalls
  /\ page' = [loadRatingsBody(getUserId(page, fresh), answer) EXCEPT
                !.calls = page.calls + 1, !.threw = FALSE,
                !.last = [fn |-> "loadRatings", outcome |-> answer.outcome,
                          userRating |-> answer.userRating, rating |-> 0]]
  /\ UNCHANGED <<DATABASE_TYPE, driver, schema, proc, song_ratings, song_star_ratings,
                 now, nstmts, ret, latestRating, latestStar, request, response, pending>>

\* submitRatingRequest(songId, rating): the POST and, when it succeeded, the
\* loadRatings call it makes.
submitRatingRequest(fresh, rating, posted, answer) ==
  /\ page.calls < MaxCalls
  /\ LET p == getUserId(page, fresh)
         q == IF posted \in {"fetch rejects", "json rejects"}
              THEN ConsoleError(p, "Error submitting rating:")
              ELSE IF posted = "success" THEN loadRatingsBody(p, answer)
              ELSE p
     IN  page' = [q EXCEPT !.calls = page.calls + 1, !.threw = FALSE,
                           !.last = [fn |-> "submitRatingRequest", outcome |-> posted,
                                     userRating |-> answer.userRating,
                                     rating |-> rating]]
  /\ UNCHANGED <<DATABASE_TYPE, driver, schema, proc, song_ratings, song_star_ratings,
                 now, nstmts, ret, latestRating, latestStar, request, response, pending>>

\* loadStarRatings(songId): updateStarDisplay(data.data.userRating || 0)
loadStarRatings(fresh, answer) ==
  /\ page.calls < MaxCalls
  /\ LET p == getUserId(page, fresh)
         q == IF answer.outcome \in {"fetch rejects", "json rejects"}
              THEN ConsoleError(p, "Error loading star ratings:")
              ELSE IF answer.outcome = "success"
                   THEN updateStarDisplay(p, IF Truthy(answer.userRating)
                                             THEN answer.userRating.n \div 10 ELSE 0)
                   ELSE p
     IN  page' = [q EXCEPT !.calls = page.calls + 1, !.threw = FALSE,
                           !.last = [fn |-> "loadStarRatings", outcome |-> answer.outcome,
                                     userRating |-> answer.userRating, rating |-> 0]]
  /\ UNCHANGED <<DATABASE_TYPE, driver, schema, proc, song_ratings, song_star_ratings,
                 now, nstmts, ret, latestRating, latestStar, request, response, pending>>

\* Variant: the stars are set before the answer is known.
submitStarRatingBody_optimistic(p, rating, posted) ==
  IF posted \in {"fetch rejects", "json rejects"}
  THEN ConsoleError(updateStarDisplay(p, rating), "Error submitting star rating:")
  ELSE updateStarDisplay(p, rating)
\* The body of the page's submitStarRating after getUserId.
submitStarRatingBody(p, rating, posted) ==
  IF posted \in {"fetch rejects", "json rejects"}
  THEN ConsoleError(p, "Error submitting star rating:")
  ELSE IF posted = "success" THEN updateStarDisplay(p, rating)
  ELSE p

\* submitStarRating(songId, rating) of the page.
pageSubmitStarRating(fresh, rating, posted) ==
  /\ page.calls < MaxCalls
  /\ page' = [submitStarRatingBody(getUserId(page, fresh), rating, posted) EXCEPT
                !.calls = page.calls + 1, !.threw = FALSE,
                !.last = [fn |-> "submitStarRating", outcome |-> posted,
                          userRating |-> JsNull, rating |-> rating]]
  /\ UNCHANGED <<DATABASE_TYPE, driver, schema, proc, song_ratings, song_star_ratings,
                 now, nstmts, ret, latestRating, latestStar, request, response, pending>>

\* getUserId() called on its own.
CallGetUserId(fresh) ==
  /\ page.calls < MaxCalls
  /\ page' = [getUserId(page, fresh) EXCEPT
                !.calls = page.calls + 1, !.threw = FALSE,
                !.last = [NoCallYet EXCEPT !.fn = "getUserId", !.outcome = "success"]]
  /\ UNCHANGED <<DATABASE_TYPE, driver, schema, proc, song_ratings, song_star_ratings,
                 now, nstmts, ret, latestRating, latestStar, request, response, pending>>

\* localStorage.clear(), by the user or a test.
ClearStorage ==
  /\ page.localStorage # JsNull
  /\ page' = [page EXCEPT !.localStorage = JsNull]
  /\ UNCHANGED <<DATABASE_TYPE, driver, schema, proc, song_ratings, song_star_ratings,
                 now, nstmts, ret, latestRating, latestStar, request, response, pending>>

InitPage ==
  /\ DATABASE_TYPE = "sqlite"
  /\ song_ratings = {}
  /\ song_star_ratings = {}
  /\ now = 0
  /\ nstmts = 0
  /\ ret = NoRet
  /\ latestRating = {}
  /\ latestStar = {}
  /\ request = NoRequest
  /\ response = NoResponse
  /\ pending = EmptyBag
  /\ driver = NoCall
  /\ page \in { Opened(stored, filled) : stored \in StoredIds, filled \in {0, 3} }
  /\ schema = RatingTables
  /\ proc = Started("database.js")

NextPage ==
  \/ \E fresh \in GeneratedIds : CallGetUserId(fresh)
  \/ ClearStorage
  \/ \E fresh \in GeneratedIds, answer \in RatingsAnswers : loadRatings(fresh, answer)
  \/ \E fresh \in GeneratedIds, rating \in {1, -1}, posted \in PostAnswers,
        answer \in RatingsAnswers :
       submitRatingRequest(fresh, rating, posted, answer)
  \/ \E fresh \in GeneratedIds, answer \in StarAnswers : loadStarRatings(fresh, answer)
  \/ \E fresh \in GeneratedIds, rating \in 1..5, posted \in PostAnswers :
       pageSubmitStarRating(fresh, rating, posted)

SpecPage == InitPage /\ [][NextPage]_vars

\* A call of one of the page's functions has been made in this step.
Called == page'.calls = page.calls + 1

\* C28: a call of getUserId (on its own or at the start of a rating call)
\* that finds a non-empty stored id returns it and leaves the stored value
\* alone; one that finds nothing or the empty string returns a generated id
\* and stores it; so while the stored value of the previous call is still
\* there, every call returns the id the previous call returned.
C28_UserIdStable ==
  [][ Called =>
        /\ IF Truthy(page.localStorage)
           THEN /\ page'.userId = page.localStorage.s
                /\ page'.localStorage = page.localStorage
           ELSE /\ page'.userId \in GeneratedIds
                /\ page'.localStorage = JsString(page'.userId)
        /\ page'.localStorage = JsString(page'.userId)
        /\ (page.calls > 0 /\ page.localStorage = JsString(page.userId)) =>
             page'.userId = page.userId
    ]_vars

\* Three calls have been made, the last one of getUserId on its own, and
\* storage holds the generated id it returned.
C28_Witness ==
  /\ page.open /\ page.calls = 3 /\ page.last.fn = "getUserId"
  /\ page.userId \in GeneratedIds
  /\ page.localStorage = JsString(page.userId)

\* C29: the two buttons are never both active, and after a loadRatings call
\* that succeeded thumbs-up is active iff the answer's userRating is 1 and
\* thumbs-down iff it is -1, whatever was active before.
C29_NeverBothActive ==
  [][ /\ ~(page.thumbsUpBtn /\ page.thumbsDownBtn)
      /\ ~(page'.thumbsUpBtn /\ page'.thumbsDownBtn)
      /\ (Called /\ page'.last.fn = "loadRatings" /\ page'.last.outcome = "success") =>
           /\ page'.thumbsUpBtn = StrictEquals(page'.last.userRating, 1)
           /\ page'.thumbsDownBtn = StrictEquals(page'.last.userRating, -1)
    ]_vars

\* The second call, a loadRatings answered with userRating -1 and the counts
\* 2 and 1, has left thumbs-down active alone.
C29_Witness ==
  /\ page.open /\ page.calls = 2
  /\ page.last.fn = "loadRatings" /\ page.last.userRating = JsInt(-1)
  /\ page.thumbsDownBtn /\ ~page.thumbsUpBtn
  /\ page.thumbsUpCount = "2" /\ page.thumbsDownCount = "1"

\* The message a function logs.
MessageOf(fn) ==
  IF fn = "loadRatings" THEN "Error loading ratings:"
  ELSE IF fn = "submitRatingRequest" THEN "Error submitting rating:"
  ELSE IF fn = "loadStarRatings" THEN "Error loading star ratings:"
  ELSE "Error submitting star rating:"

MaxFetches == 4

\* Song ids `${artist}_${title}` of the metadata.
FlightSongs == { "song1", "song2" }

\* index of the star hovered or clicked.
StarIndexes == { 1, 4 }

FreshId == "user_1_a"

NoAnswer == [outcome |-> "none", thumbs_up |-> 0, thumbs_down |-> 0, userRating |-> JsNull]

\* The page after its scripts have run: let currentSongId = null, counts 0,
\* no button active, five empty stars.
Loaded(stored) ==
  [open |-> TRUE, localStorage |-> stored, userId |-> "",
   thumbsUpCount |-> "0", thumbsDownCount |-> "0",
   thumbsUpBtn |-> FALSE, thumbsDownBtn |-> FALSE, stars |-> 0,
   errors |-> 0, message |-> "", currentSongId |-> JsNull, hover |-> FALSE,
   log |-> <<>>]

\* getUserId() and await fetch(...): the request is on its way.
Fetch(p, fn, songId, rating, call) ==
  LET q == getUserId(p, FreshId)
  IN  [q EXCEPT !.log = Append(q.log,
         [fn |-> fn, songId |-> songId, userId |-> q.userId, rating |-> rating,
          call |-> call, phase |-> "sent", answer |-> NoAnswer])]

\* The rest of loadStarRatings once fetch has answered.
loadStarRatingsBody(p, answer) ==
  IF answer.outcome \in {"fetch rejects", "json rejects"}
  THEN ConsoleError(p, "Error loading star ratings:")
  ELSE IF answer.outcome = "success"
       THEN updateStarDisplay(p, IF Truthy(answer.userRating)
                                 THEN answer.userRating.n \div 10 ELSE 0)
       ELSE p

\* Variant: the ratings are reloaded whatever the POST answered.
submitRatingRequestBody_always(p, i, songId, outcome) ==
  IF outcome \in {"fetch rejects", "json rejects"}
  THEN Fetch(ConsoleError(p, "Error submitting rating:"), "loadRatings", songId, 0, i)
  ELSE Fetch(p, "loadRatings", songId, 0, i)
\* The rest of submitRatingRequest once the POST (fetch number i) has
\* answered: if (data.success) loadRatings(songId).
submitRatingRequestBody(p, i, songId, outcome) ==
  IF outcome \in {"fetch rejects", "json rejects"}
  THEN ConsoleError(p, "Error submitting rating:")
  ELSE IF outcome = "success" THEN Fetch(p, "loadRatings", songId, 0, i)
  ELSE p

\* updateNowPlaying(data) of a metadata answer: currentSongId = songId, then
\* loadRatings(songId) and loadStarRatings(songId).
UpdateNowPlaying(song) ==
  /\ Len(page.log) + 2 <= MaxFetches
  /\ page' = Fetch(Fetch([page EXCEPT !.currentSongId = JsString(song)],
                         "loadRatings", song, 0, 0),
                   "loadStarRatings", song, 0, 0)
  /\ UNCHANGED <<DATABASE_TYPE, driver, schema, proc, song_ratings, song_star_ratings,
                 now, nstmts, ret, latestRating, latestStar, request, response, pending>>

\* click on the thumbs up (rating 1) or thumbs down (rating -1) button.
ClickThumb(rating) ==
  /\ Len(page.log) < MaxFetches
  /\ page' = IF Truthy(page.currentSongId)
             THEN Fetch(page, "submitRatingRequest", page.currentSongId.s, rating, 0)
             ELSE page
  /\ UNCHANGED <<DATABASE_TYPE, driver, schema, proc, song_ratings, song_star_ratings,
                 now, nstmts, ret, latestRating, latestStar, request, response, pending>>

\* click on the star of the given index: rating = index + 1.
ClickStar(index) ==
  /\ Len(page.log) < MaxFetches
  /\ page' = IF Truthy(page.currentSongId)
             THEN Fetch(page, "submitStarRating", page.currentSongId.s, index + 1, 0)
             ELSE page
  /\ UNCHANGED <<DATABASE_TYPE, driver, schema, proc, song_ratings, song_star_ratings,
                 now, nstmts, ret, latestRating, latestStar, request, response, pending>>

\* mouseenter on a star: the stars up to it are shown filled.
MouseEnter(index) ==
  /\ page' = [page EXCEPT !.stars = index + 1, !.hover = TRUE]
  /\ UNCHANGED <<DATABASE_TYPE, driver, schema, proc, song_ratings, song_star_ratings,
                 now, nstmts, ret, latestRating, latestStar, request, response, pending>>

\* mouseleave on the star container: loadStarRatings(currentSongId).
MouseLeave ==
  /\ page.hover
  /\ Len(page.log) < MaxFetches
  /\ page' = IF Truthy(page.currentSongId)
             THEN Fetch([page EXCEPT !.hover = FALSE], "loadStarRatings",
                        page.currentSongId.s, 0, 0)
             ELSE [page EXCEPT !.hover = FALSE]
  /\ UNCHANGED <<DATABASE_TYPE, driver, schema, proc, song_ratings, song_star_ratings,
                 now, nstmts, ret, latestRating, latestStar, request, response, pending>>

\* What the route answers to the page's request f, as fetch and
\* response.json() give it to the page.
Answered(outcome, a, b, user) ==
  [outcome |-> outcome, thumbs_up |-> a, thumbs_down |-> b,
   userRating |-> IF user.none THEN JsNull ELSE JsInt(user.rating)]

\* The server handles fetch number i: the whole route handler runs.
Serve(i) ==
  LET f == page.log[i]
      none == [none |-> TRUE, rating |-> 0]
  IN  /\ f.phase = "sent"
      /\ CASE f.fn = "loadRatings" ->
                LET ratings == getRatingsSync(f.songId)
                    userRating == getUserRatingSync(f.songId, f.userId)
                IN  /\ page' = [page EXCEPT !.log[i].phase = "answered",
                                  !.log[i].answer = Answered("success", ratings.thumbs_up,
                                                             ratings.thumbs_down, userRating)]
                    /\ UNCHANGED <<song_ratings, song_star_ratings>>
            [] f.fn = "loadStarRatings" ->
                LET userRating == getUserStarRatingSync(f.songId, f.userId)
                IN  /\ page' = [page EXCEPT !.log[i].phase = "answered",
                                  !.log[i].answer = Answered("success", 0, 0, userRating)]
                    /\ UNCHANGED <<song_ratings, song_star_ratings>>
            [] f.fn = "submitRatingRequest" ->
                LET r == submitRatingSync(JsString(f.songId), JsString(f.userId),
                                          JsInt(f.rating))
                IN  /\ song_ratings' = r.rows
                    /\ page' = [page EXCEPT !.log[i].phase = "answered",
                                  !.log[i].answer =
                                     Answered(IF ~r.threw /\ r.ok THEN "success"
                                              ELSE "success false", 0, 0, none)]
                    /\ UNCHANGED song_star_ratings
            [] f.fn = "submitStarRating" ->
                LET r == submitStarRatingSync(JsString(f.songId), JsString(f.userId),
                                              JsInt(f.rating))
                IN  /\ song_star_ratings' = r.rows
                    /\ page' = [page EXCEPT !.log[i].phase = "answered",
                                  !.log[i].answer =
                                     Answered(IF ~r.threw /\ r.ok THEN "success"
                                              ELSE "success false", 0, 0, none)]
                    /\ UNCHANGED song_ratings
      /\ UNCHANGED <<DATABASE_TYPE, driver, schema, proc, now, nstmts, ret, latestRating,
                     latestStar, request, response, pending>>

\* Fetch number i does not reach a route that answers it: the network fails,
\* or what comes back is not JSON, or it says success: false.
Lose(i, failure) ==
  /\ page.log[i].phase = "sent"
  /\ page' = [page EXCEPT !.log[i].phase = "answered",
                          !.log[i].answer = [NoAnswer EXCEPT !.outcome = failure]]
  /\ UNCHANGED <<DATABASE_TYPE, driver, schema, proc, song_ratings, song_star_ratings,
                 now, nstmts, ret, latestRating, latestStar, request, response, pending>>

\* The answer to fetch number i arrives and the function that awaited it
\* runs to its end.
Arrive(i) ==
  LET f == page.log[i]
      p == [page EXCEPT !.log[i].phase = "done"]
  IN  /\ f.phase = "answered"
      /\ (f.fn = "submitRatingRequest" /\ f.answer.outcome = "success")
           => Len(page.log) < MaxFetches
      /\ page' = CASE f.fn = "loadRatings" -> loadRatingsBody(p, f.answer)
                   [] f.fn = "loadStarRatings" -> loadStarRatingsBody(p, f.answer)
                   [] f.fn = "submitRatingRequest" ->
                        submitRatingRequestBody(p, i, f.songId, f.answer.outcome)
                   [] f.fn = "submitStarRating" ->
                        submitStarRatingBody(p, f.rating, f.answer.outcome)
      /\ UNCHANGED <<DATABASE_TYPE, driver, schema, proc, song_ratings, song_star_ratings,
                     now, nstmts, ret, latestRating, latestStar, request, response, pending>>

\* Ratings the database file holds when the page is opened.
FlightStored ==
  { <<{}, {}>>,
    <<{ Row("song1", "user_0_x", 1, 0) }, { Row("song1", "user_0_x", 4, 0) }>> }

\* What becomes of a fetch that is not answered by its route.
FlightFailures == { "fetch rejects", "success false" }

\* index of the star the mouse enters.
HoverIndexes == { 4 }

InitFlight ==
  /\ DATABASE_TYPE = "sqlite"
  /\ \E stored \in FlightStored :
       song_ratings = stored[1] /\ song_star_ratings = stored[2]
  /\ now = 0
  /\ nstmts = 0
  /\ ret = NoRet
  /\ latestRating = {}
  /\ latestStar = {}
  /\ request = NoRequest
  /\ response = NoResponse
  /\ pending = EmptyBag
  /\ driver = NoCall
  /\ page = Loaded(JsString("user_0_x"))
  /\ schema = RatingTables
  /\ proc = Started("database.js")

NextFlight ==
  \/ \E song \in FlightSongs : UpdateNowPlaying(song)
  \/ \E rating \in {1, -1} : ClickThumb(rating)
  \/ \E index \in StarIndexes : ClickStar(index)
  \/ \E index \in HoverIndexes : MouseEnter(index)
  \/ MouseLeave
  \/ \E i \in 1..Len(page.log) : Serve(i)
  \/ \E i \in 1..Len(page.log), failure \in FlightFailures : Lose(i, failure)
  \/ \E i \in 1..Len(page.log) : Arrive(i)

SpecFlight == InitFlight /\ [][NextFlight]_vars

\* The fetches made on behalf of the submitRatingRequest call whose POST is
\* fetch number i: the POST and the reloads its answer made.
FetchesOf(i) == { j \in 1..Len(page.log) : j = i \/ page.log[j].call = i }

\* C31: in submitRatingRequest the reload GET is sent only after the POST
\* has been answered with success = true: while the POST is under way, and
\* when it reports failure or rejects, the POST is the only fetch of the
\* call; after a success there is exactly one reload, made after the POST.
C31_ReloadOnlyAfterSuccess ==
  \A i \in 1..Len(page.log) :
    page.log[i].fn = "submitRatingRequest" =>
      /\ \A j \in FetchesOf(i) \ {i} : j > i /\ page.log[j].fn = "loadRatings"
                                        /\ page.log[j].songId = page.log[i].songId
      /\ Cardinality(FetchesOf(i)) =
           IF page.log[i].phase = "done" /\ page.log[i].answer.outcome = "success"
           THEN 2 ELSE 1

C31_Witness ==
  \E i, j \in 1..Len(page.log) :
    /\ page.log[i].fn = "submitRatingRequest" /\ page.log[i].phase = "done"
    /\ page.log[i].answer.outcome = "success"
    /\ FetchesOf(i) = {i, j} /\ i < j /\ page.log[j].phase = "done"
    /\ page.thumbsDownBtn

\* C32: whenever POST /api/ratings has answered with success, the submitted
\* row is already written: a lookup of that song and user that starts after
\* the answer gives the submitted value, on either backend (the request is
\* the one answered last, so no later submission has intervened).
C32_AnsweredMeansWritten ==
  (/\ request.route = "POST /api/ratings"
   /\ response.status = 200
   /\ response.success \/ response.promise)
  => LET userRating == getUserRating(ColumnText(request.songId),
                                      ColumnText(request.userId))
     IN  ~userRating.none /\ userRating.rating = request.rating.n \div 10

(***************************************************************************)
(* The four rating routes served by one process on the embedded engine:    *)
(* requests of several users for several songs arrive in any order, and    *)
(* each handler runs from its first statement to res.json without an       *)
(* await, so that no other handler runs in between.                        *)
(***************************************************************************)
SnapSongs == { "song1", "7" }
SnapUsers == { JsString("user1"), JsString("user2") }

NextSnap ==
  \/ \E s \in SnapSongs, u \in SnapUsers, r \in { JsInt(1), JsInt(-1) } :
       PostRatings(JsString(s), u, r)
  \/ \E s \in SnapSongs, u \in SnapUsers \cup { JsUndefined } : GetRatings(s, u)
  \/ \E s \in SnapSongs, u \in SnapUsers, r \in { JsInt(2), JsInt(5) } :
       PostStarRatings(JsString(s), u, r)
  \/ \E s \in SnapSongs, u \in SnapUsers \cup { JsUndefined } : GetStarRatings(s, u)

SpecSnap == InitHttp /\ [][NextSnap]_vars

\* C33: every answer of GET /api/ratings/:songId?userId=U is a consistent
\* snapshot, whatever POSTs were handled before and between the GETs:
\* userRating = 1 comes with thumbs_up >= 1 and userRating = -1 with
\* thumbs_down >= 1, and an answer of GET /api/star-ratings/:songId with a
\* userRating comes with total_ratings >= 1.
C33_ConsistentSnapshot ==
  /\ (request.route = "GET /api/ratings/:songId" /\ response.status = 200
        /\ ~response.data.none)
     => /\ response.data.userRating = 1 => response.data.a >= 1
        /\ response.data.userRating = -1 => response.data.b >= 1
  /\ (request.route = "GET /api/star-ratings/:songId" /\ response.status = 200
        /\ ~response.data.none)
     => response.data.b >= 1

C33_Witness ==
  /\ request.route = "GET /api/ratings/:songId" /\ response.status = 200
  /\ ~response.data.none /\ response.data.userRating = -1
  /\ response.data.a = 1 /\ response.data.b = 1
  /\ Cardinality(song_star_ratings) = 1

\* Every fetch made has been answered with success and its answer has been
\* processed by the page.
AllProcessed ==
  \A i \in 1..Len(page.log) :
    page.log[i].phase = "done" /\ page.log[i].answer.outcome = "success"

\* The page shows the ratings the server holds for the song and the user.
Shows(songId, userId) ==
  LET ratings == getRatingsSync(songId)
      userRating == getUserRatingSync(songId, userId)
      userStars == getUserStarRatingSync(songId, userId)
  IN  /\ page.thumbsUpCount = ToString(ratings.thumbs_up)
      /\ page.thumbsDownCount = ToString(ratings.thumbs_down)
      /\ page.thumbsUpBtn = (~userRating.none /\ userRating.rating = 1)
      /\ page.thumbsDownBtn = (~userRating.none /\ userRating.rating = -1)
      /\ page.stars = IF userStars.none THEN 0 ELSE userStars.rating

\* C34: when the current song has changed while rating loads were in flight,
\* then once every loadRatings / loadStarRatings answer has been processed
\* the counts, the highlight and the stars shown are those of currentSongId,
\* in whatever order the answers arrived.
C34_ShowsCurrentSong ==
  (/\ Len(page.log) > 0
   /\ AllProcessed
   /\ \A i \in 1..Len(page.log) : page.log[i].fn \in {"loadRatings", "loadStarRatings"}
   /\ ~page.hover)
  => Shows(page.currentSongId.s, page.userId)

\* The numbers of the fetches made by the function fn.
FetchesBy(fn) == { i \in 1..Len(page.log) : page.log[i].fn = fn }

\* C35: when the user has clicked several stars for the same song, then once
\* all the POSTs have been handled and all answers processed the number of
\* filled stars is the rating the server stores for the user and the song,
\* in whatever order the requests were handled and the answers arrived.
C35_StarsMatchStored ==
  (/\ Cardinality(FetchesBy("submitStarRating")) >= 2
   /\ FetchesBy("submitRatingRequest") = {}
   /\ AllProcessed
   /\ \A i \in 1..Len(page.log) : page.log[i].songId = page.currentSongId.s
   /\ ~page.hover)
  => LET userStars == getUserStarRatingSync(page.currentSongId.s, page.userId)
     IN  ~userStars.none /\ page.stars = userStars.rating

(***************************************************************************)
(* public/app.js: the play button and the audio element.  audio.play()     *)
(* returns a promise that the browser settles later; the audio element     *)
(* fires its events at any time.  A disabled button receives no click.     *)
(* page.promises counts the play() promises not yet settled, page.last     *)
(* names the handler that ran last.                                        *)
(***************************************************************************)
MaxPromises == 3

\* The page after initPlayer(): isPlaying = false, the button enabled and
\* showing the play sign, the status 'ready' or, without HLS support, 'error'.
PlayerLoaded(status) ==
  [open |-> TRUE, isPlaying |-> FALSE, disabled |-> FALSE, textContent |-> "play",
   status |-> status, timeDisplay |-> "00:00", paused |-> TRUE, promises |-> 0,
   last |-> "none"]

\* playButton click: play while not playing, pause otherwise.
OnClick ==
  /\ ~page.disabled
  /\ IF ~page.isPlaying
     THEN /\ page.promises < MaxPromises
          /\ page' = [page EXCEPT !.status = "loading", !.disabled = TRUE,
                                  !.paused = FALSE, !.promises = page.promises + 1,
                                  !.last = "click"]
     ELSE page' = [page EXCEPT !.paused = TRUE, !.isPlaying = FALSE,
                               !.textContent = "play", !.status = "stopped",
                               !.last = "click"]
  /\ UNCHANGED <<DATABASE_TYPE, driver, schema, proc, song_ratings, song_star_ratings,
                 now, nstmts, ret, latestRating, latestStar, request, response, pending>>

\* audio.play().then(...): playback has started; updateTime() shows the
\* elapsed time while the audio is not paused.
PlayResolved ==
  /\ page.promises > 0
  /\ page' = [page EXCEPT !.promises = page.promises - 1, !.isPlaying = TRUE,
                          !.textContent = "pause", !.disabled = FALSE,
                          !.status = "playing",
                          !.timeDisplay = IF page.paused THEN page.timeDisplay
                                          ELSE "elapsed",
                          !.last = "resolved"]
  /\ UNCHANGED <<DATABASE_TYPE, driver, schema, proc, song_ratings, song_star_ratings,
                 now, nstmts, ret, latestRating, latestStar, request, response, pending>>

\* Variant: the catch handler reports the error and leaves the button as it is.
PlayRejected_noEnable ==
  /\ page.promises > 0
  /\ page' = [page EXCEPT !.promises = page.promises - 1, !.status = "error",
                          !.last = "rejected"]
  /\ UNCHANGED <<DATABASE_TYPE, driver, schema, proc, song_ratings, song_star_ratings,
                 now, nstmts, ret, latestRating, latestStar, request, response, pending>>
\* audio.play().catch(...): the request to play has failed or was aborted.
PlayRejected ==
  /\ page.promises > 0
  /\ page' = [page EXCEPT !.promises = page.promises - 1, !.status = "error",
                          !.disabled = FALSE, !.last = "rejected"]
  /\ UNCHANGED <<DATABASE_TYPE, driver, schema, proc, song_ratings, song_star_ratings,
                 now, nstmts, ret, latestRating, latestStar, request, response, pending>>

\* audio 'waiting'
OnWaiting ==
  /\ page' = [page EXCEPT !.status = IF page.isPlaying THEN "loading" ELSE page.status,
                          !.last = "waiting"]
  /\ UNCHANGED <<DATABASE_TYPE, driver, schema, proc, song_ratings, song_star_ratings,
                 now, nstmts, ret, latestRating, latestStar, request, response, pending>>

\* audio 'playing'
OnPlaying ==
  /\ page' = [page EXCEPT !.status = "playing", !.last = "playing"]
  /\ UNCHANGED <<DATABASE_TYPE, driver, schema, proc, song_ratings, song_star_ratings,
                 now, nstmts, ret, latestRating, latestStar, request, response, pending>>

\* audio 'pause'
OnPause ==
  /\ page' = [page EXCEPT !.status = IF ~page.isPlaying THEN "stopped" ELSE page.status,
                          !.last = "pause"]
  /\ UNCHANGED <<DATABASE_TYPE, driver, schema, proc, song_ratings, song_star_ratings,
                 now, nstmts, ret, latestRating, latestStar, request, response, pending>>

\* audio 'ended'
OnEnded ==
  /\ page' = [page EXCEPT !.isPlaying = FALSE, !.textContent = "play",
                          !.status = "stopped", !.timeDisplay = "00:00",
                          !.last = "ended"]
  /\ UNCHANGED <<DATABASE_TYPE, driver, schema, proc, song_ratings, song_star_ratings,
                 now, nstmts, ret, latestRating, latestStar, request, response, pending>>

\* audio 'error'
OnError ==
  /\ page' = [page EXCEPT !.status = "error", !.isPlaying = FALSE,
                          !.textContent = "play", !.disabled = FALSE,
                          !.timeDisplay = "00:00", !.last = "error"]
  /\ UNCHANGED <<DATABASE_TYPE, driver, schema, proc, song_ratings, song_star_ratings,
                 now, nstmts, ret, latestRating, latestStar, request, response, pending>>

InitPlayer ==
  /\ DATABASE_TYPE = "sqlite"
  /\ song_ratings = {}
  /\ song_star_ratings = {}
  /\ now = 0
  /\ nstmts = 0
  /\ ret = NoRet
  /\ latestRating = {}
  /\ latestStar = {}
  /\ request = NoRequest
  /\ response = NoResponse
  /\ pending = EmptyBag
  /\ driver = NoCall
  /\ page \in { PlayerLoaded(status) : status \in {"ready", "error"} }
  /\ schema = RatingTables
  /\ proc = Started("database.js")

NextPlayer ==
  \/ OnClick
  \/ PlayResolved
  \/ PlayRejected
  \/ OnWaiting
  \/ OnPlaying
  \/ OnPause
  \/ OnEnded
  \/ OnError

\* The browser settles every play() promise.
SpecPlayer ==
  InitPlayer /\ [][NextPlayer]_vars /\ WF_vars(PlayResolved \/ PlayRejected)

====
